---- MODULE Spec2Model ----
(***************************************************************************)
(* Model of the Semantic Vault Organization Engine (src/src/organizer).    *)
(*                                                                         *)
(* Strings that are paths are modelled as tuples of tokens: the string     *)
(* "A/B/c.md" is <<"A","B","c.md">>, the empty string is <<>>, the string  *)
(* "." is <<".">> and a leading slash is the token "/" ("/e.md" is         *)
(* <<"/","e.md">>).  Two strings are equal iff their tuples are equal.     *)
(*                                                                         *)
(* Embeddings are vectors of dimension 1 (the engine fixes no dimension).  *)
(* On these np.mean, np.linalg.norm and the division by the norm are exact *)
(* in floating point, so the model computes them with integers: the vector *)
(* [x] is the tuple <<x>>, and a missing embedding (None) is <<>>.         *)
(***************************************************************************)
EXTENDS Integers, Sequences, FiniteSets, TLC

\* ------------------------------------------------------------------------
\* Bounds and input sets
\* ------------------------------------------------------------------------

\* Largest number of entries of the path -> vector map given to build_tree.
MaxFiles == 3

\* Components of the input vectors: negative, zero, and one of norm > 1.
EmbValues == {-1, 0, 2}

\* Components of the vectors given to cluster_files: two parallel vectors of
\* different norm, their opposite, and the zero vector.
ClusterEmbValues == {-1, 0, 1, 2}

\* File paths given to cluster_files.
ClusterPaths == { <<"Inbox", "w.md">>, <<"Inbox", "x.md">>, <<"Inbox", "y.md">>, <<"Inbox", "z.md">> }

\* Largest number of entries of doc_emb.json in a run of the pipeline.
MaxDocs == 2

\* File paths of doc_emb.json: files of the vault, files of the inbox, a
\* file of a nested folder named like the inbox, and a file whose path
\* joins the inbox and its name with a backslash.
RunPaths ==
  { <<"A", "b.md">>, <<"A", "c.md">>, <<"A", "B", "d.md">>,
    <<"Inbox", "x.md">>, <<"Inbox", "y.md">>, <<"A", "Inbox", "z.md">>,
    <<"Inbox\\x.md">> }

\* The inbox_prefix argument of organize_inbox.
InboxPrefix == <<"Inbox">>

\* File paths offered to build_tree: a top-level file, two files of one
\* folder, a nested file, and the three kinds of path the specification
\* calls invalid (empty, absolute, with a parent-directory segment).
TreePaths ==
  { <<"a.md">>, <<"A", "b.md">>, <<"A", "c.md">>, <<"A", "B", "d.md">>,
    <<>>, <<"/", "e.md">>, <<"..", "f.md">> }

VARIABLES
  file_embeddings,  \* the input dict, in insertion order: Seq of [path, embedding]
  tpc,              \* position in build_tree / compute_folder_embeddings
  idx,              \* index of the next entry of file_embeddings to insert
  nodes,            \* the FolderNode objects, in creation order (1 is root)
  folder_cache,     \* build_tree's folder_cache: folder path -> node
  failure,          \* the exception that ended the call, "none" if none
  stack,            \* call stack of compute_folder_embeddings: frames [node, next]
  visited,          \* history: folders in the order compute_folder_embeddings finished them
  embeddings,       \* cluster_files: the input dict, in insertion order
  distance_threshold, \* cluster_files: the merge cutoff, in tenths
  cpc,              \* cluster_files: "idle", "call", "returned" or "raised"
  clusters,         \* cluster_files: the list returned
  max_words,        \* auto_label_cluster: the max_words argument
  label,            \* auto_label_cluster: the string returned, <<>> before
  mode,             \* the pipeline run: "analyze_vault", "organize_inbox" or "none"
  recompute_folders, \* the run's recompute_folders argument
  doc_emb,          \* the content of the file at doc_emb_path, in key order
  doc_kind,         \* the file at doc_emb_path: "mapping", "absent" or "empty_file"
  dir_emb,          \* the file at dir_emb_path: [exists, kind, data]
  pc,               \* the step of the run that comes next
  folder_embeddings, \* the run's folder_embeddings dict, in key order
  report,           \* <<>> or the one report the run returned
  log,              \* history: the steps the run has taken, in order
  z_threshold,      \* analyze_vault: the z_threshold argument, in tenths
  min_files,        \* analyze_vault: the min_files argument
  top_k,            \* the run's top_k (top_k_suggestions) argument
  min_similarity,   \* the run's min_similarity argument, in tenths
  folder_analyses,  \* analyze_vault: the list of rank_incoherent_folders
  outliers,         \* analyze_vault: the list of identify_all_outliers
  suggestions,      \* the run's list of suggestions
  saved,            \* <<>> or the content of the report file written by main
  moves,            \* the suggestions reconstructed by the moves command
  dev_list,         \* identify_outlier_files called alone: its list of deviations
  flag_list,        \* identify_outlier_files called alone: the positions it flags
  run,              \* 1 in the first run of the program, 2 in a repeated run
  first             \* <<>> or what the first run returned, kept for the second

treeVars == <<file_embeddings, tpc, idx, nodes, folder_cache, stack, visited>>

clusterVars == <<embeddings, distance_threshold, cpc, clusters, max_words, label>>

paramVars == <<z_threshold, min_files, top_k, min_similarity, dev_list, run, first, doc_kind>>

resultVars == <<folder_analyses, outliers, suggestions, saved, moves, flag_list>>

runVars == <<mode, recompute_folders, doc_emb, dir_emb, pc, folder_embeddings, report, log,
             paramVars, resultVars>>

vars == <<treeVars, failure, clusterVars, runVars>>

\* ------------------------------------------------------------------------
\* Helpers
\* ------------------------------------------------------------------------

Abs(x) == IF x < 0 THEN -x ELSE x

Sign(x) == IF x > 0 THEN 1 ELSE IF x < 0 THEN -1 ELSE 0

Range(s) == {s[i] : i \in 1..Len(s)}

Front(s) == SubSeq(s, 1, Len(s) - 1)

RECURSIVE SumSeq(_)
SumSeq(s) == IF s = <<>> THEN 0 ELSE s[1] + SumSeq(Tail(s))

RECURSIVE Flatten(_)
Flatten(ss) == IF ss = <<>> THEN <<>> ELSE ss[1] \o Flatten(Tail(ss))

\* All sequences of length n of pairwise distinct elements of S.
RECURSIVE DistinctSeqs(_, _)
DistinctSeqs(S, n) ==
  IF n = 0 THEN {<<>>}
  ELSE UNION {{Append(s, x) : x \in S \ Range(s)} : s \in DistinctSeqs(S, n - 1)}

\* The dicts path -> vector with n entries, in every insertion order.
Dicts(P, E, n) ==
  UNION {{[i \in 1..n |-> [path |-> ps[i], embedding |-> es[i]]] :
             es \in [1..n -> E]} : ps \in DistinctSeqs(P, n)}

\* ------------------------------------------------------------------------
\* pathlib.PurePosixPath
\* ------------------------------------------------------------------------

\* PurePosixPath(s): the parts of the path; "." segments are dropped.
PurePosixPath(s) == SelectSeq(s, LAMBDA t : t # ".")

\* PurePosixPath.parent: the path without its last part; "." and "/" are
\* their own parent.
PathParent(p) == IF p = <<>> \/ p = <<"/">> THEN p ELSE Front(p)

\* str(PurePosixPath): the path without parts prints as ".".
PathStr(p) == IF p = <<>> THEN <<".">> ELSE p

\* ------------------------------------------------------------------------
\* folder_tree.py: FolderNode, build_tree
\* ------------------------------------------------------------------------

\* None, for the parent of a node.
NoNode == 0

\* FolderNode(path=..., parent=...): no files, no subfolders, no embedding.
FolderNode(path, parent) ==
  [path |-> path, files |-> <<>>, subfolders |-> <<>>, embedding |-> <<>>,
   parent |-> parent]

\* State of build_tree before the loop: root = FolderNode(path=""),
\* folder_cache = {"": root}.
EmptyTree == [nodes |-> <<FolderNode(<<>>, NoNode)>>, folder_cache |-> (<<>> :> 1)]

\* A variant of get_or_create_folder that never looks a folder up.
RECURSIVE get_or_create_folder_nomemo(_, _)
get_or_create_folder_nomemo(t, folder_path) ==
  IF folder_path = <<>> THEN t
  ELSE LET path_obj == PurePosixPath(folder_path)
           parent_path == IF PathParent(path_obj) # path_obj
                          THEN PathStr(PathParent(path_obj)) ELSE <<>>
           t1 == get_or_create_folder_nomemo(t, parent_path)
           parent_folder == t1.folder_cache[parent_path]
           new_folder == Len(t1.nodes) + 1
       IN [nodes |-> Append([t1.nodes EXCEPT ![parent_folder].subfolders = Append(@, new_folder)],
                            FolderNode(folder_path, parent_folder)),
           folder_cache |-> (folder_path :> new_folder) @@ t1.folder_cache]

\* A variant of get_or_create_folder that does not append the new folder to
\* the subfolders of its parent.
RECURSIVE get_or_create_folder_unlinked(_, _)
get_or_create_folder_unlinked(t, folder_path) ==
  IF folder_path \in DOMAIN t.folder_cache THEN t
  ELSE LET path_obj == PurePosixPath(folder_path)
           parent_path == IF PathParent(path_obj) # path_obj
                          THEN PathStr(PathParent(path_obj)) ELSE <<>>
           t1 == get_or_create_folder_unlinked(t, parent_path)
           parent_folder == t1.folder_cache[parent_path]
           new_folder == Len(t1.nodes) + 1
       IN [nodes |-> Append(t1.nodes, FolderNode(folder_path, parent_folder)),
           folder_cache |-> (folder_path :> new_folder) @@ t1.folder_cache]

\* get_or_create_folder(folder_path): the tree after the call; the folder
\* returned is folder_cache[folder_path] of the result.
RECURSIVE get_or_create_folder(_, _)
get_or_create_folder(t, folder_path) ==
  IF folder_path \in DOMAIN t.folder_cache THEN t
  ELSE LET path_obj == PurePosixPath(folder_path)
           parent_path == IF PathParent(path_obj) # path_obj
                          THEN PathStr(PathParent(path_obj)) ELSE <<>>
           t1 == get_or_create_folder(t, parent_path)
           parent_folder == t1.folder_cache[parent_path]
           new_folder == Len(t1.nodes) + 1
       IN [nodes |-> Append([t1.nodes EXCEPT ![parent_folder].subfolders = Append(@, new_folder)],
                            FolderNode(folder_path, parent_folder)),
           folder_cache |-> (folder_path :> new_folder) @@ t1.folder_cache]

\* One iteration of the loop of build_tree over file_embeddings.items().
InsertFile(t, file_path, embedding) ==
  LET path_obj == PurePosixPath(file_path)
      parent_path == IF PathStr(PathParent(path_obj)) # <<".">>
                     THEN PathStr(PathParent(path_obj)) ELSE <<>>
      t1 == get_or_create_folder(t, parent_path)
      parent_folder == t1.folder_cache[parent_path]
      file_node == [path |-> file_path, embedding |-> <<embedding>>, parent |-> parent_folder]
  IN [t1 EXCEPT !.nodes[parent_folder].files = Append(@, file_node)]

\* build_tree(file_embeddings): the whole loop.
RECURSIVE InsertAll(_, _)
InsertAll(t, fe) ==
  IF fe = <<>> THEN t
  ELSE InsertAll(InsertFile(t, fe[1].path, fe[1].embedding), Tail(fe))

build_tree(fe) == InsertAll(EmptyTree, fe)

\* ------------------------------------------------------------------------
\* folder_tree.py: compute_folder_embeddings, get_all_folders
\* ------------------------------------------------------------------------

\* The components of a list of vectors.
Components(vs) == [i \in 1..Len(vs) |-> vs[i][1]]

\* A variant of the aggregation that stores the mean without dividing by
\* its norm.
MeanOnly(all_embeddings) ==
  <<SumSeq(Components(all_embeddings)) \div Len(all_embeddings)>>

\* Lines 143-146 for a nonempty list: mean = total / n has norm |total| / n;
\* when the norm is positive the mean is divided by it, which leaves the
\* sign of the total; a zero mean is stored as it is.
NormalizedMean(all_embeddings) ==
  <<Sign(SumSeq(Components(all_embeddings)))>>

\* A variant of step 2 that collects the direct file embeddings only.
DirectFileEmbeddings(ns, folder) ==
  LET fs == ns[folder].files
  IN SelectSeq([i \in 1..Len(fs) |-> fs[i].embedding], LAMBDA e : e # <<>>)

\* Step 2 of compute_folder_embeddings: the direct file embeddings followed
\* by the embeddings of the direct subfolders, None skipped.
AllEmbeddings(ns, folder) ==
  LET fs == ns[folder].files
      subs == ns[folder].subfolders
  IN SelectSeq([i \in 1..Len(fs) |-> fs[i].embedding], LAMBDA e : e # <<>>)
     \o SelectSeq([i \in 1..Len(subs) |-> ns[subs[i]].embedding], LAMBDA e : e # <<>>)

\* Steps 2 and 3 of compute_folder_embeddings for one folder whose
\* subfolders have been processed.
AggregateFolder(ns, folder) ==
  LET all_embeddings == AllEmbeddings(ns, folder)
  IN IF all_embeddings # <<>>
     THEN [ns EXCEPT ![folder].embedding = NormalizedMean(all_embeddings)]
     ELSE ns

\* compute_folder_embeddings(folder): the nodes after the recursive call.
RECURSIVE compute_folder_embeddings(_, _)
RECURSIVE ComputeSubfolders(_, _)
ComputeSubfolders(ns, subs) ==
  IF subs = <<>> THEN ns
  ELSE ComputeSubfolders(compute_folder_embeddings(ns, subs[1]), Tail(subs))

compute_folder_embeddings(ns, folder) ==
  AggregateFolder(ComputeSubfolders(ns, ns[folder].subfolders), folder)

\* get_all_folders(root, include_root): pre-order list of the folders.
RECURSIVE Traverse(_, _)
Traverse(ns, node) ==
  <<node>> \o Flatten([i \in 1..Len(ns[node].subfolders) |-> Traverse(ns, ns[node].subfolders[i])])

get_all_folders(ns, include_root) ==
  SelectSeq(Traverse(ns, 1), LAMBDA n : ns[n].path # <<>> \/ include_root)

\* ------------------------------------------------------------------------
\* SpecTree: build_tree followed by compute_folder_embeddings(root), one
\* loop iteration and one recursive call at a time.
\* ------------------------------------------------------------------------

\* No call of cluster_files.
ClusterIdle ==
  /\ embeddings = <<>>
  /\ distance_threshold = 0
  /\ cpc = "idle"
  /\ clusters = <<>>
  /\ max_words = 0
  /\ label = <<>>

\* No call of build_tree or compute_folder_embeddings.
TreeIdle ==
  /\ file_embeddings = <<>>
  /\ tpc = "idle"
  /\ idx = 1
  /\ nodes = EmptyTree.nodes
  /\ folder_cache = EmptyTree.folder_cache
  /\ stack = <<>>
  /\ visited = <<>>

\* No run of analyze_vault or organize_inbox.
RunIdle ==
  /\ mode = "none"
  /\ recompute_folders = FALSE
  /\ doc_emb = <<>>
  /\ doc_kind = "mapping"
  /\ dir_emb = [exists |-> FALSE, kind |-> "absent", data |-> <<>>]
  /\ pc = "idle"
  /\ folder_embeddings = <<>>
  /\ report = <<>>
  /\ log = <<>>
  /\ z_threshold = 0
  /\ min_files = 0
  /\ top_k = 0
  /\ min_similarity = 0
  /\ folder_analyses = <<>>
  /\ outliers = <<>>
  /\ suggestions = <<>>
  /\ saved = <<>>
  /\ moves = <<>>
  /\ dev_list = <<>>
  /\ flag_list = <<>>
  /\ run = 1
  /\ first = <<>>

InitTree ==
  /\ file_embeddings \in UNION {Dicts(TreePaths, EmbValues, n) : n \in 0..MaxFiles}
  /\ tpc = "build"
  /\ idx = 1
  /\ nodes = EmptyTree.nodes
  /\ folder_cache = EmptyTree.folder_cache
  /\ failure = "none"
  /\ stack = <<>>
  /\ visited = <<>>
  /\ ClusterIdle
  /\ RunIdle

\* One iteration of "for file_path, embedding in file_embeddings.items()".
BuildStep ==
  /\ tpc = "build"
  /\ idx <= Len(file_embeddings)
  /\ LET t == InsertFile([nodes |-> nodes, folder_cache |-> folder_cache],
                         file_embeddings[idx].path, file_embeddings[idx].embedding)
     IN /\ nodes' = t.nodes
        /\ folder_cache' = t.folder_cache
  /\ idx' = idx + 1
  /\ UNCHANGED <<file_embeddings, tpc, failure, stack, visited, clusterVars, runVars>>

\* "return root" of build_tree.
BuildReturn ==
  /\ tpc = "build"
  /\ idx > Len(file_embeddings)
  /\ tpc' = "built"
  /\ UNCHANGED <<file_embeddings, idx, nodes, folder_cache, failure, stack, visited, clusterVars, runVars>>

\* The caller's compute_folder_embeddings(root).
ComputeCall ==
  /\ tpc = "built"
  /\ tpc' = "aggregate"
  /\ stack' = <<[node |-> 1, next |-> 1]>>
  /\ UNCHANGED <<file_embeddings, idx, nodes, folder_cache, failure, visited, clusterVars, runVars>>

\* Step 1: the recursive call for the next subfolder.
ComputeDescend ==
  /\ tpc = "aggregate"
  /\ LET top == stack[Len(stack)]
     IN /\ top.next <= Len(nodes[top.node].subfolders)
        /\ stack' = Append([stack EXCEPT ![Len(stack)].next = @ + 1],
                           [node |-> nodes[top.node].subfolders[top.next], next |-> 1])
  /\ UNCHANGED <<file_embeddings, tpc, idx, nodes, folder_cache, failure, visited, clusterVars, runVars>>

\* Steps 2 and 3 for the folder on top of the stack, and its return.
ComputeFolder ==
  /\ tpc = "aggregate"
  /\ LET top == stack[Len(stack)]
     IN /\ top.next > Len(nodes[top.node].subfolders)
        /\ nodes' = AggregateFolder(nodes, top.node)
        /\ visited' = Append(visited, top.node)
  /\ stack' = Front(stack)
  /\ tpc' = IF Len(stack) = 1 THEN "done" ELSE "aggregate"
  /\ UNCHANGED <<file_embeddings, idx, folder_cache, failure, clusterVars, runVars>>

NextTree == BuildStep \/ BuildReturn \/ ComputeCall \/ ComputeDescend \/ ComputeFolder

SpecTree == InitTree /\ [][NextTree]_vars

\* ------------------------------------------------------------------------
\* Properties of build_tree (SpecTree)
\* ------------------------------------------------------------------------

Folders == 1..Len(nodes)

\* build_tree has returned.
Built == tpc \in {"built", "aggregate", "done"}

\* The folders reachable from the root through subfolder links.
Reachable == Range(Traverse(nodes, 1))

\* The parent link of every subfolder points back to the folder listing it.
ParentLinksAgree ==
  \A n \in Folders : \A c \in Range(nodes[n].subfolders) : nodes[c].parent = n

\* The directory prefixes of a file path: its nonempty proper prefixes.
DirPrefixes(file_path) == {SubSeq(file_path, 1, k) : k \in 1..(Len(file_path) - 1)}

\* C1: for a nonempty map, the tree returned by build_tree has exactly one
\* folder without a parent, the root, and every directory prefix of every
\* input path is the path of a folder reachable from the root through
\* subfolder links whose parent links agree with them.
C1_OneRootAncestorsExist ==
  (Built /\ file_embeddings # <<>>) =>
     /\ {n \in Folders : nodes[n].parent = NoNode} = {1}
     /\ ParentLinksAgree
     /\ \A i \in 1..Len(file_embeddings) :
          \A d \in DirPrefixes(file_embeddings[i].path) :
            \E n \in Reachable : nodes[n].path = d

\* A nested file was inserted: its two ancestors are in the returned tree.
C1_Witness ==
  /\ Built
  /\ \E i \in 1..Len(file_embeddings) : file_embeddings[i].path = <<"A", "B", "d.md">>
  /\ \E n \in Reachable : nodes[n].path = <<"A", "B">>

\* The path of the folder a file belongs to, as build_tree computes it.
ParentPathOf(file_path) ==
  LET p == PathStr(PathParent(PurePosixPath(file_path)))
  IN IF p # <<".">> THEN p ELSE <<>>

\* C2: at every point of build_tree, in every insertion order, no two folder
\* nodes have the same path, every folder node is the one folder_cache holds
\* for its path, and every file hangs under the node of its parent path, so
\* a folder first created as an ancestor is reused as a direct parent.
C2_OneNodePerPath ==
  /\ \A m, n \in Folders : nodes[m].path = nodes[n].path => m = n
  /\ \A n \in Folders : nodes[n].path \in DOMAIN folder_cache
                        /\ folder_cache[nodes[n].path] = n
  /\ \A n \in Folders : \A f \in Range(nodes[n].files) :
        nodes[n].path = ParentPathOf(f.path) /\ f.parent = n

\* Folder A was created as an ancestor of A/B/d.md and then used as the
\* direct parent of A/b.md.
C2_Witness ==
  /\ Built
  /\ Len(file_embeddings) >= 2
  /\ file_embeddings[1].path = <<"A", "B", "d.md">>
  /\ file_embeddings[2].path = <<"A", "b.md">>
  /\ \E n \in Folders : nodes[n].path = <<"A">> /\ Len(nodes[n].files) = 1
                        /\ Len(nodes[n].subfolders) = 1

\* A path the specification calls invalid: empty, absolute, or with a
\* parent-directory segment.
IsInvalidPath(file_path) ==
  \/ file_path = <<>>
  \/ file_path[1] = "/"
  \/ ".." \in Range(file_path)

HasInvalidPath == \E i \in 1..Len(file_embeddings) : IsInvalidPath(file_embeddings[i].path)

\* C3: when an input path is empty, absolute or contains "..", build_tree
\* returns no tree and ends with the InvalidPath condition.
C3_InvalidPathFails ==
  HasInvalidPath =>
     /\ ~Built
     /\ (idx > Len(file_embeddings) => failure = "InvalidPath")

\* ------------------------------------------------------------------------
\* Properties of compute_folder_embeddings (SpecTree)
\* ------------------------------------------------------------------------

\* The sum of the components of the direct file embeddings and of the
\* direct subfolders' embeddings of a folder, and how many there are.
DirectTotal(n) ==
  SumSeq([i \in 1..Len(nodes[n].files) |-> nodes[n].files[i].embedding[1]])
  + SumSeq([i \in 1..Len(nodes[n].subfolders) |->
              IF nodes[nodes[n].subfolders[i]].embedding = <<>> THEN 0
              ELSE nodes[nodes[n].subfolders[i]].embedding[1]])

DirectCount(n) ==
  Len(nodes[n].files)
  + Cardinality({i \in 1..Len(nodes[n].subfolders) : nodes[nodes[n].subfolders[i]].embedding # <<>>})

\* C4: compute_folder_embeddings processes every folder exactly once, a
\* folder only after all of its subfolders; a folder's embedding is set when
\* it is processed and never before or again, and its value is the
\* normalized mean of exactly its direct file embeddings and its direct
\* subfolders' embeddings (unset when there is nothing to aggregate).
C4_PostOrderOnce ==
  /\ \A i, j \in 1..Len(visited) : visited[i] = visited[j] => i = j
  /\ \A i \in 1..Len(visited) : \A c \in Range(nodes[visited[i]].subfolders) :
        \E j \in 1..(i - 1) : visited[j] = c
  /\ \A n \in Folders \ Range(visited) : nodes[n].embedding = <<>>
  /\ \A n \in Range(visited) :
        nodes[n].embedding = IF DirectCount(n) = 0 THEN <<>> ELSE <<Sign(DirectTotal(n))>>
  /\ tpc = "done" => Range(visited) = Folders

\* Aggregation finished on a tree where a folder has a direct file and a
\* subfolder whose embeddings differ.
C4_Witness ==
  /\ tpc = "done"
  /\ \E n \in Folders :
        /\ nodes[n].files # <<>>
        /\ nodes[n].subfolders # <<>>
        /\ nodes[n].files[1].embedding # nodes[nodes[n].subfolders[1]].embedding
        /\ nodes[n].embedding # <<>>

\* The files of the subtree of a folder.
RECURSIVE SubtreeFiles(_)
SubtreeFiles(n) ==
  Range(nodes[n].files) \cup UNION {SubtreeFiles(c) : c \in Range(nodes[n].subfolders)}

Norm(v) == Abs(v[1])

\* C5 as stated: after aggregation every folder whose subtree contains a
\* file with a nonzero embedding has an embedding of L2 norm 1.
C5_NormOneIfNonzeroDescendant ==
  tpc = "done" =>
     \A n \in Folders :
        (\E f \in SubtreeFiles(n) : Norm(f.embedding) # 0) =>
           nodes[n].embedding # <<>> /\ Norm(nodes[n].embedding) = 1

\* C5 amended: after aggregation every folder that has something to
\* aggregate has an embedding; its L2 norm is 1 when the mean of its direct
\* file embeddings and direct subfolder embeddings is nonzero, and it is the
\* zero vector when that mean is zero.
C5_NormOneIfMeanNonzero ==
  tpc = "done" =>
     \A n \in Folders :
        DirectCount(n) > 0 =>
           /\ nodes[n].embedding # <<>>
           /\ DirectTotal(n) # 0 => Norm(nodes[n].embedding) = 1
           /\ DirectTotal(n) = 0 => nodes[n].embedding = <<0>>

\* Aggregation finished with a folder of norm 1 above a file of norm 2 and
\* with a folder whose nonzero contributions cancelled out.
C5_Witness ==
  /\ tpc = "done"
  /\ \E n \in Folders : /\ nodes[n].embedding # <<>>
                        /\ Norm(nodes[n].embedding) = 1
                        /\ \E f \in Range(nodes[n].files) : Norm(f.embedding) = 2
  /\ \E n \in Folders : /\ nodes[n].embedding = <<0>>
                        /\ \E f \in SubtreeFiles(n) : Norm(f.embedding) # 0

\* ------------------------------------------------------------------------
\* clustering.py: cosine_similarity, compute_internal_coherence, cluster_files
\* ------------------------------------------------------------------------

\* distance_threshold is kept in tenths: 3 is the default 0.3, 20 is 2.0.
DefaultDistanceThreshold == 3

ThresholdScale == 10

\* The thresholds tried: 0, the default, exactly 2, and above 2.
Thresholds == {0, DefaultDistanceThreshold, 2 * ThresholdScale, 2 * ThresholdScale + 5}

\* The component of X[0] / np.linalg.norm(X[0]) for a zero vector: 0/0.
NaN == -99

\* cosine_similarity(a, b), the same function in clustering.py and in
\* discrepancy.py: 0.0 when a norm is zero, else dot / (norm * norm).  The
\* norm of a NaN vector is NaN, which is not equal to zero, and the quotient
\* is then NaN.
cosine_similarity(a, b) ==
  LET norm_a == IF a[1] = NaN THEN NaN ELSE Abs(a[1])
      norm_b == IF b[1] = NaN THEN NaN ELSE Abs(b[1])
  IN IF norm_a = 0 \/ norm_b = 0 THEN 0
     ELSE IF norm_a = NaN \/ norm_b = NaN THEN NaN
     ELSE Sign(a[1]) * Sign(b[1])

\* compute_internal_coherence(files, embeddings): the mean of the pairwise
\* similarities, as the fraction num / den; 1.0 below two files.
compute_internal_coherence(vecs) ==
  IF Len(vecs) < 2 THEN [num |-> 1, den |-> 1]
  ELSE LET pairs == {p \in (1..Len(vecs)) \X (1..Len(vecs)) : p[1] < p[2]}
           plus == Cardinality({p \in pairs : cosine_similarity(vecs[p[1]], vecs[p[2]]) = 1})
           minus == Cardinality({p \in pairs : cosine_similarity(vecs[p[1]], vecs[p[2]]) = -1})
       IN [num |-> plus - minus, den |-> Cardinality(pairs)]

\* Lines 116-118: the rows of X divided by their norms, zero norms replaced
\* by 1.
Normalize(X) == [i \in 1..Len(X) |-> Sign(X[i])]

\* Cosine distance of two rows of X_normalized, as the clustering computes
\* it: 1 - cosine similarity.
CosineDistance(Xn, i, j) == 1 - Xn[i] * Xn[j]

\* The sum of the distances over a set of pairs of rows.
RECURSIVE SumDistances(_, _)
SumDistances(Xn, pairs) ==
  IF pairs = {} THEN 0
  ELSE LET p == CHOOSE q \in pairs : TRUE
       IN CosineDistance(Xn, p[1], p[2]) + SumDistances(Xn, pairs \ {p})

\* Average linkage: the distance of two clusters u, v is
\* LinkSum / (|u| * |v|), the mean distance of their pairs.
LinkSum(Xn, u, v) == SumDistances(Xn, u \X v)

\* A variant of the stopping rule that merges at a distance equal to the
\* threshold too.
MergesAtOrBelow(linksum, size, threshold) ==
  ThresholdScale * linksum <= threshold * size

\* AgglomerativeClustering(distance_threshold=...): clusters at a linkage
\* distance at or above the threshold are not merged.
Merges(linksum, size, threshold) ==
  ThresholdScale * linksum < threshold * size

\* AgglomerativeClustering(n_clusters=None, metric='cosine',
\* linkage='average', distance_threshold=...).fit_predict: merge the two
\* closest clusters while their distance is below the threshold.  The
\* result is the partition of the rows that the labels describe.
RECURSIVE Agglomerate(_, _, _)
Agglomerate(Xn, cs, threshold) ==
  IF Cardinality(cs) < 2 THEN cs
  ELSE LET pairs == {p \in cs \X cs : p[1] # p[2]}
           Size(p) == Cardinality(p[1]) * Cardinality(p[2])
           Closer(p, q) == LinkSum(Xn, p[1], p[2]) * Size(q) < LinkSum(Xn, q[1], q[2]) * Size(p)
           best == CHOOSE p \in pairs : \A q \in pairs : ~Closer(q, p)
       IN IF Merges(LinkSum(Xn, best[1], best[2]), Size(best), threshold)
          THEN Agglomerate(Xn, (cs \ {best[1], best[2]}) \cup {best[1] \cup best[2]}, threshold)
          ELSE cs

\* A variant of lines 130-134 that groups every row with the first row of
\* its cluster only, leaving out the other rows.
GroupFirstRows(n, partition) ==
  LET rows == [i \in 1..n |-> i]
      ClusterOf(i) == CHOOSE c \in partition : i \in c
      firsts == SelectSeq(rows, LAMBDA i : \A j \in ClusterOf(i) : i <= j)
  IN [g \in 1..Len(firsts) |-> <<firsts[g]>>]

\* Lines 130-134: the rows grouped by label, the groups in the order in
\* which their first row appears, the rows of a group in input order.
GroupByLabel(n, partition) ==
  LET rows == [i \in 1..n |-> i]
      ClusterOf(i) == CHOOSE c \in partition : i \in c
      firsts == SelectSeq(rows, LAMBDA i : \A j \in ClusterOf(i) : i <= j)
  IN [g \in 1..Len(firsts) |-> SelectSeq(rows, LAMBDA j : j \in ClusterOf(firsts[g]))]

\* A variant of the sort that orders by size ascending.
RECURSIVE SortBySizeAsc(_)
SortBySizeAsc(gs) ==
  IF gs = <<>> THEN <<>>
  ELSE LET rest == SortBySizeAsc(Front(gs))
           g == gs[Len(gs)]
           k == Cardinality({i \in 1..Len(rest) : Len(rest[i]) <= Len(g)})
       IN SubSeq(rest, 1, k) \o <<g>> \o SubSeq(rest, k + 1, Len(rest))

\* clusters.sort(key=lambda c: len(c.files), reverse=True): a stable sort,
\* groups of equal size keep their order.
RECURSIVE SortBySizeDesc(_)
SortBySizeDesc(gs) ==
  IF gs = <<>> THEN <<>>
  ELSE LET rest == SortBySizeDesc(Front(gs))
           g == gs[Len(gs)]
           k == Cardinality({i \in 1..Len(rest) : Len(rest[i]) >= Len(g)})
       IN SubSeq(rest, 1, k) \o <<g>> \o SubSeq(rest, k + 1, Len(rest))

\* FileCluster(cluster_id, files, centroid, coherence) for a group of rows,
\* lines 139-154; the centroid is the normalized mean of the raw vectors,
\* the label is left at None.
FileCluster(cluster_id, emb, group) ==
  LET vecs == [k \in 1..Len(group) |-> <<emb[group[k]].embedding>>]
  IN [cluster_id |-> cluster_id,
      files |-> [k \in 1..Len(group) |-> emb[group[k]].path],
      centroid |-> NormalizedMean(vecs),
      coherence |-> compute_internal_coherence(vecs),
      label |-> <<>>]

\* cluster_files(embeddings, distance_threshold): [raised, clusters].  The
\* clustering raises ValueError for cosine distance on a zero row.  The
\* ids given at line 150 are the labels; lines 160-161 replace them by the
\* positions after the sort.
cluster_files(emb, threshold) ==
  LET n == Len(emb)
      X == [i \in 1..n |-> emb[i].embedding]
  IN IF n = 0 THEN [raised |-> "none", clusters |-> <<>>]
     ELSE IF n = 1
     THEN [raised |-> "none",
           clusters |-> <<[cluster_id |-> 0, files |-> <<emb[1].path>>,
                           centroid |-> IF X[1] = 0 THEN <<NaN>> ELSE <<Sign(X[1])>>,
                           coherence |-> [num |-> 1, den |-> 1], label |-> <<>>]>>]
     ELSE IF \E i \in 1..n : X[i] = 0
     THEN [raised |-> "ValueError", clusters |-> <<>>]
     ELSE LET partition == Agglomerate(Normalize(X), {{i} : i \in 1..n}, threshold)
              sorted == SortBySizeDesc(GroupByLabel(n, partition))
          IN [raised |-> "none",
              clusters |-> [i \in 1..Len(sorted) |-> FileCluster(i - 1, emb, sorted[i])]]

\* ------------------------------------------------------------------------
\* SpecCluster: one call of cluster_files on every input
\* ------------------------------------------------------------------------

InitCluster ==
  /\ embeddings \in UNION {Dicts(ClusterPaths, ClusterEmbValues, n) : n \in 0..MaxFiles}
  /\ distance_threshold \in Thresholds
  /\ cpc = "call"
  /\ clusters = <<>>
  /\ max_words = 0
  /\ label = <<>>
  /\ failure = "none"
  /\ TreeIdle
  /\ RunIdle

\* The call returns its list.
ClusterReturn ==
  /\ cpc = "call"
  /\ LET r == cluster_files(embeddings, distance_threshold)
     IN /\ r.raised = "none"
        /\ clusters' = r.clusters
  /\ cpc' = "returned"
  /\ UNCHANGED <<embeddings, distance_threshold, max_words, label, failure, treeVars, runVars>>

\* The call ends with the exception of the clustering.
ClusterRaise ==
  /\ cpc = "call"
  /\ LET r == cluster_files(embeddings, distance_threshold)
     IN /\ r.raised # "none"
        /\ failure' = r.raised
  /\ cpc' = "raised"
  /\ UNCHANGED <<embeddings, distance_threshold, clusters, max_words, label, treeVars, runVars>>

NextCluster == ClusterReturn \/ ClusterRaise

SpecCluster == InitCluster /\ [][NextCluster]_vars

\* ------------------------------------------------------------------------
\* Properties of cluster_files (SpecCluster)
\* ------------------------------------------------------------------------

PairwiseDistinct ==
  \A i, j \in 1..Len(embeddings) :
     embeddings[i].embedding = embeddings[j].embedding => i = j

NoZeroVector == \A i \in 1..Len(embeddings) : embeddings[i].embedding # 0

\* C9: on N pairwise-distinct vectors (here: nonzero ones, which the
\* clustering accepts) cluster_files returns N singleton clusters when
\* distance_threshold = 0 and exactly one cluster holding all N files when
\* distance_threshold >= 2, threshold exactly 2 with vectors at cosine
\* distance 2 included.
C9_ThresholdExtremes ==
  (cpc # "call" /\ PairwiseDistinct /\ NoZeroVector /\ Len(embeddings) >= 1) =>
     /\ cpc = "returned"
     /\ distance_threshold = 0 =>
           /\ Len(clusters) = Len(embeddings)
           /\ \A i \in 1..Len(clusters) : Len(clusters[i].files) = 1
     /\ distance_threshold >= 2 * ThresholdScale =>
           /\ Len(clusters) = 1
           /\ Len(clusters[1].files) = Len(embeddings)

\* C10: the list returned is ordered by member count descending and the
\* cluster at position i (counted from 0) has cluster_id i.
C10_SortedBySizeWithIds ==
  cpc = "returned" =>
     /\ \A i \in 1..(Len(clusters) - 1) :
           Len(clusters[i].files) >= Len(clusters[i + 1].files)
     /\ \A i \in 1..Len(clusters) : clusters[i].cluster_id = i - 1

\* The call returned a larger cluster ahead of a smaller one whose file
\* comes first in the input.
C10_Witness ==
  /\ cpc = "returned"
  /\ Len(clusters) = 2
  /\ Len(clusters[1].files) = 2
  /\ Len(clusters[2].files) = 1
  /\ clusters[2].files[1] = embeddings[1].path

\* C11: cluster_files returns the empty list for an empty input; for a
\* one-file input, a file whose vector has zero norm included, it returns
\* exactly one cluster with that file, id 0, coherence 1.0 and a centroid
\* that is a well-defined vector, the file's normalized embedding.
C11_EmptyAndSingleton ==
  (cpc # "call" /\ Len(embeddings) <= 1) =>
     /\ cpc = "returned"
     /\ Len(embeddings) = 0 => clusters = <<>>
     /\ Len(embeddings) = 1 =>
           /\ Len(clusters) = 1
           /\ clusters[1].files = <<embeddings[1].path>>
           /\ clusters[1].cluster_id = 0
           /\ clusters[1].coherence.num = clusters[1].coherence.den
           /\ clusters[1].centroid # <<NaN>>
           /\ clusters[1].centroid = <<Sign(embeddings[1].embedding)>>

\* ------------------------------------------------------------------------
\* clustering.py: auto_label_cluster, label_all_clusters
\* ------------------------------------------------------------------------

\* The labelling works on the characters of the file names.  A string is
\* the tuple of its characters; Chars gives the characters of the path
\* segments that occur in the model.
Chars(segment) ==
  CASE segment = "one_two.md"   -> <<"o","n","e","_","t","w","o",".","m","d">>
    [] segment = "Two-one.md"   -> <<"T","w","o","-","o","n","e",".","m","d">>
    [] segment = "the six.md"   -> <<"t","h","e"," ","s","i","x",".","m","d">>
    [] segment = "ab_six.v2.md" -> <<"a","b","_","s","i","x",".","v","2",".","m","d">>
    [] segment = "two__six"     -> <<"t","w","o","_","_","s","i","x">>
    [] segment = "-One.md"      -> <<"-","O","n","e",".","m","d">>
    [] segment = "Inbox"        -> <<"I","n","b","o","x">>
    [] segment = "w.md"         -> <<"w",".","m","d">>
    [] segment = "x.md"         -> <<"x",".","m","d">>
    [] segment = "y.md"         -> <<"y",".","m","d">>
    [] segment = "z.md"         -> <<"z",".","m","d">>
    [] segment = "Inbox\\x.md"  -> <<"I","n","b","o","x","\\","x",".","m","d">>
    [] OTHER                    -> <<segment>>

\* The string of a path: its segments joined by "/".
RECURSIVE PathString(_)
PathString(path) ==
  IF path = <<>> THEN <<>>
  ELSE IF Len(path) = 1 THEN Chars(path[1])
  ELSE Chars(path[1]) \o <<"/">> \o PathString(Tail(path))

\* File paths of the cluster given to auto_label_cluster.
LabelPaths ==
  { <<"Inbox", "one_two.md">>, <<"Inbox", "Two-one.md">>, <<"Inbox", "the six.md">>,
    <<"Inbox", "ab_six.v2.md">>, <<"Inbox", "two__six">>, <<"Inbox", "-One.md">> }

\* The max_words arguments tried; 4 is the default.
MaxWordsValues == {1, 2, 4}

Max(S) == CHOOSE x \in S : \A y \in S : y <= x

\* s.rsplit(c, 1)[-1]: what follows the last c, all of s without a c.
AfterLast(s, c) ==
  LET at == {i \in 1..Len(s) : s[i] = c}
  IN IF at = {} THEN s ELSE SubSeq(s, Max(at) + 1, Len(s))

\* s.rsplit(c, 1)[0]: what precedes the last c, all of s without a c.
BeforeLast(s, c) ==
  LET at == {i \in 1..Len(s) : s[i] = c}
  IN IF at = {} THEN s ELSE SubSeq(s, 1, Max(at) - 1)

\* str.lower on the upper-case letters of the file names.
Lower(s) ==
  [i \in 1..Len(s) |-> CASE s[i] = "T" -> "t" [] s[i] = "O" -> "o" [] s[i] = "I" -> "i"
                         [] OTHER -> s[i]]

\* The class [-_\s] of the pattern.
IsSeparator(c) == c \in {"-", "_", " "}

RECURSIVE DropSeparators(_)
DropSeparators(s) ==
  IF s # <<>> /\ IsSeparator(s[1]) THEN DropSeparators(Tail(s)) ELSE s

\* re.split(r'[-_\s]+', s): the pieces between the runs of separators; a
\* run at either end leaves an empty piece there.
RECURSIVE ReSplit(_, _)
ReSplit(s, piece) ==
  IF s = <<>> THEN <<piece>>
  ELSE IF IsSeparator(s[1]) THEN <<piece>> \o ReSplit(DropSeparators(s), <<>>)
  ELSE ReSplit(Tail(s), Append(piece, s[1]))

StopWords ==
  { <<"t","h","e">>, <<"a","n","d">>, <<"f","o","r">>, <<"w","i","t","h">> }

\* Lines 182-186: the words of one file name.
FileWords(path) ==
  LET filename == BeforeLast(AfterLast(path, "/"), ".")
      words == ReSplit(Lower(filename), <<>>)
  IN SelectSeq(words, LAMBDA w : Len(w) > 2 /\ w \notin StopWords)

\* Counter(all_words): the distinct words in the order of their first
\* occurrence, each with its count.
Counter(all_words) ==
  LET firsts == SelectSeq([i \in 1..Len(all_words) |-> i],
                          LAMBDA i : \A j \in 1..(i - 1) : all_words[j] # all_words[i])
  IN [k \in 1..Len(firsts) |->
        [word |-> all_words[firsts[k]],
         count |-> Cardinality({j \in 1..Len(all_words) : all_words[j] = all_words[firsts[k]]})]]

\* A variant of most_common in which, among words of equal count, the one
\* seen last comes first.
RECURSIVE MostCommonLastSeen(_)
MostCommonLastSeen(items) ==
  IF items = <<>> THEN <<>>
  ELSE LET rest == MostCommonLastSeen(Front(items))
           it == items[Len(items)]
           k == Cardinality({i \in 1..Len(rest) : rest[i].count > it.count})
       IN SubSeq(rest, 1, k) \o <<it>> \o SubSeq(rest, k + 1, Len(rest))

\* Counter.most_common: the items ordered by count descending,
\* heapq.nlargest being equivalent to sorted(items, key=count,
\* reverse=True)[:n], a stable sort: items of equal count keep the order
\* of the Counter.
RECURSIVE SortByCountDesc(_)
SortByCountDesc(items) ==
  IF items = <<>> THEN <<>>
  ELSE LET rest == SortByCountDesc(Front(items))
           it == items[Len(items)]
           k == Cardinality({i \in 1..Len(rest) : rest[i].count >= it.count})
       IN SubSeq(rest, 1, k) \o <<it>> \o SubSeq(rest, k + 1, Len(rest))

most_common(items, n) ==
  LET sorted == SortByCountDesc(items)
  IN SubSeq(sorted, 1, IF n < Len(sorted) THEN n ELSE Len(sorted))

\* ' '.join(words)
RECURSIVE Join(_)
Join(words) ==
  IF words = <<>> THEN <<>>
  ELSE IF Len(words) = 1 THEN words[1]
  ELSE words[1] \o <<" ">> \o Join(Tail(words))

\* auto_label_cluster(cluster, max_words): the label, a string.
auto_label_cluster(cluster, n) ==
  LET all_words == Flatten([i \in 1..Len(cluster.files) |-> FileWords(PathString(cluster.files[i]))])
      top == most_common(Counter(all_words), n)
      common_words == [i \in 1..Len(top) |-> top[i].word]
  IN IF common_words # <<>> THEN Join(common_words)
     ELSE <<"C","l","u","s","t","e","r"," ">> \o <<ToString(cluster.cluster_id)>>

\* label_all_clusters(clusters): every cluster without a label gets the
\* label of auto_label_cluster with the default max_words.
DefaultMaxWords == 4

label_all_clusters(cs) ==
  [i \in 1..Len(cs) |->
     IF cs[i].label = <<>>
     THEN [cs[i] EXCEPT !.label = auto_label_cluster(cs[i], DefaultMaxWords)]
     ELSE cs[i]]

\* ------------------------------------------------------------------------
\* SpecLabel: one call of auto_label_cluster on a cluster of every choice
\* of files
\* ------------------------------------------------------------------------

\* FileCluster(cluster_id=..., files=...): the other fields at their
\* defaults, centroid None, coherence 0.0, label None.
InitLabel ==
  /\ \E n \in 1..MaxFiles : \E fs \in DistinctSeqs(LabelPaths, n) : \E id \in {0, 1} :
        clusters = <<[cluster_id |-> id, files |-> fs, centroid |-> <<>>,
                      coherence |-> [num |-> 0, den |-> 1], label |-> <<>>]>>
  /\ max_words \in MaxWordsValues
  /\ label = <<>>
  /\ cpc = "label"
  /\ embeddings = <<>>
  /\ distance_threshold = 0
  /\ failure = "none"
  /\ TreeIdle
  /\ RunIdle

\* The call returns the label.
LabelReturn ==
  /\ cpc = "label"
  /\ label' = auto_label_cluster(clusters[1], max_words)
  /\ cpc' = "labelled"
  /\ UNCHANGED <<embeddings, distance_threshold, clusters, max_words, failure, treeVars, runVars>>

NextLabel == LabelReturn

SpecLabel == InitLabel /\ [][NextLabel]_vars

\* ------------------------------------------------------------------------
\* Properties of auto_label_cluster (SpecLabel)
\* ------------------------------------------------------------------------

\* The filtered words of the files of the cluster, in member order.
LabelWords ==
  Flatten([i \in 1..Len(clusters[1].files) |-> FileWords(PathString(clusters[1].files[i]))])

WordCount(words, w) == Cardinality({i \in 1..Len(words) : words[i] = w})

FirstSeen(words, w) == CHOOSE i \in 1..Len(words) :
                          words[i] = w /\ \A j \in 1..(i - 1) : words[j] # w

\* u ranks before w: more frequent, or equally frequent and seen first.
RanksBefore(words, u, w) ==
  \/ WordCount(words, u) > WordCount(words, w)
  \/ WordCount(words, u) = WordCount(words, w) /\ FirstSeen(words, u) < FirstSeen(words, w)

\* The words the claim expects in the label: those with fewer than n
\* words ranking before them, by rank.
ExpectedLabelWords(words, n) ==
  LET ws == Range(words)
      rank == [w \in ws |-> Cardinality({u \in ws : RanksBefore(words, u, w)})]
      kept == {w \in ws : rank[w] < n}
  IN [i \in 1..Cardinality(kept) |-> CHOOSE w \in kept : rank[w] = i - 1]

\* C12: when the file names of the cluster have words left after dropping
\* those of length <= 2 and the stopwords, the label is made of the
\* max_words most frequent words, by frequency descending, words of equal
\* frequency in the order of their first occurrence in the member list; at
\* the cut-off the word seen first is the one kept.
C12_LabelTiesFirstSeen ==
  (cpc = "labelled" /\ LabelWords # <<>>) =>
     label = Join(ExpectedLabelWords(LabelWords, max_words))

\* A label was cut off between two words of equal frequency, its words are
\* not in the order of their first occurrence, and a stopword and a short
\* word were dropped.
C12_Witness ==
  /\ cpc = "labelled"
  /\ max_words = 2
  /\ clusters[1].files = << <<"Inbox", "the six.md">>, <<"Inbox", "one_two.md">>,
                            <<"Inbox", "two__six">> >>
  /\ label = <<"s","i","x"," ","t","w","o">>

\* ------------------------------------------------------------------------
\* The folder-embedding cache: folder_embeddings_to_dict,
\* save_folder_embeddings, load_folder_embeddings
\* ------------------------------------------------------------------------

\* A dict in key order is a sequence of [path, embedding] with distinct paths.
Keys(d) == {d[i].path : i \in 1..Len(d)}

Lookup(d, path) == (CHOOSE i \in 1..Len(d) : d[i].path = path)

\* folder_embeddings_to_dict(root): the folders of get_all_folders(root)
\* that have an embedding, in that order.
folder_embeddings_to_dict(ns) ==
  LET with == SelectSeq(get_all_folders(ns, FALSE), LAMBDA n : ns[n].embedding # <<>>)
  IN [i \in 1..Len(with) |-> [path |-> ns[with[i]].path, embedding |-> ns[with[i]].embedding]]

\* The states of the file at dir_emb_path before a run.  Besides a JSON
\* object of vectors ("mapping", as save_folder_embeddings writes it, for
\* this or another vault) the file can be one that cannot be opened, one
\* that is not JSON, JSON that is not an object, an object whose values are
\* not numbers, or an object whose values are the number 0 instead of
\* vectors.
CacheValues == {<<-1>>, <<1>>}

CacheMappings ==
  {<<>>}
  \cup {<<[path |-> <<".">>, embedding |-> v], [path |-> <<"A">>, embedding |-> w]>> :
          v \in CacheValues, w \in CacheValues}
  \cup {<<[path |-> <<".">>, embedding |-> v], [path |-> <<"A">>, embedding |-> v],
          [path |-> <<"A", "B">>, embedding |-> w]>> : v \in CacheValues, w \in CacheValues}
  \cup {<<[path |-> <<".">>, embedding |-> v], [path |-> <<"Z">>, embedding |-> w]>> :
          v \in CacheValues, w \in CacheValues}

ScalarMapping ==
  <<[path |-> <<".">>, embedding |-> 0], [path |-> <<"A">>, embedding |-> 0]>>

CacheFiles ==
  {[exists |-> FALSE, kind |-> "absent", data |-> <<>>]}
  \cup {[exists |-> TRUE, kind |-> "mapping", data |-> d] : d \in CacheMappings}
  \cup {[exists |-> TRUE, kind |-> k, data |-> <<>>] :
          k \in {"unreadable", "not_json", "not_object", "not_numeric"}}
  \cup {[exists |-> TRUE, kind |-> "scalars", data |-> ScalarMapping]}

MalformedKinds == {"unreadable", "not_json", "not_object", "not_numeric", "scalars"}

\* load_folder_embeddings(path): [raised, data].  open raises OSError
\* (FileNotFoundError where no file is, as on a file it may not read),
\* json.load raises JSONDecodeError, data.items() raises AttributeError on
\* a value that is not an object, np.array(v, dtype=np.float32) raises
\* ValueError on text; it turns the number 0 into an array of norm 0,
\* kept here as the zero vector.
load_folder_embeddings(file) ==
  IF ~file.exists \/ file.kind = "unreadable" THEN [raised |-> "OSError", data |-> <<>>]
  ELSE IF file.kind = "not_json" THEN [raised |-> "JSONDecodeError", data |-> <<>>]
  ELSE IF file.kind = "not_object" THEN [raised |-> "AttributeError", data |-> <<>>]
  ELSE IF file.kind = "not_numeric" THEN [raised |-> "ValueError", data |-> <<>>]
  ELSE IF file.kind = "scalars"
  THEN [raised |-> "none",
        data |-> [i \in 1..Len(file.data) |->
                    [path |-> file.data[i].path, embedding |-> <<file.data[i].embedding>>]]]
  ELSE [raised |-> "none", data |-> file.data]

\* ------------------------------------------------------------------------
\* binary64 arithmetic: the float64 numbers of numpy and the floats of
\* Python, with round-to-nearest, ties-to-even
\* ------------------------------------------------------------------------

\* Natural numbers of any size: sequences of limbs below LimbBase, least
\* significant limb first, top limb nonzero; <<>> is 0.
LimbBits == 15

LimbBase == 32768

\* The significand of a binary64 number has 53 bits.
MantissaBits == 53

RECURSIVE Pow2(_)
Pow2(k) == IF k = 0 THEN 1 ELSE 2 * Pow2(k - 1)

RECURSIVE Trim(_)
Trim(a) == IF a # <<>> /\ a[Len(a)] = 0 THEN Trim(SubSeq(a, 1, Len(a) - 1)) ELSE a

RECURSIVE ToBig(_)
ToBig(k) == IF k = 0 THEN <<>> ELSE <<k % LimbBase>> \o ToBig(k \div LimbBase)

Limb(a, i) == IF i <= Len(a) THEN a[i] ELSE 0

RECURSIVE AddFrom(_, _, _, _)
AddFrom(a, b, i, carry) ==
  IF i > Len(a) /\ i > Len(b) THEN (IF carry = 0 THEN <<>> ELSE <<carry>>)
  ELSE LET s == Limb(a, i) + Limb(b, i) + carry
       IN <<s % LimbBase>> \o AddFrom(a, b, i + 1, s \div LimbBase)

BigAdd(a, b) == AddFrom(a, b, 1, 0)

RECURSIVE SubFrom(_, _, _, _)
SubFrom(a, b, i, borrow) ==
  IF i > Len(a) THEN <<>>
  ELSE LET s == Limb(a, i) - Limb(b, i) - borrow
       IN <<s % LimbBase>> \o SubFrom(a, b, i + 1, IF s < 0 THEN 1 ELSE 0)

\* a - b for a >= b.
BigSub(a, b) == Trim(SubFrom(a, b, 1, 0))

RECURSIVE CmpFrom(_, _, _)
CmpFrom(a, b, i) ==
  IF i = 0 THEN 0
  ELSE IF a[i] # b[i] THEN (IF a[i] < b[i] THEN -1 ELSE 1)
  ELSE CmpFrom(a, b, i - 1)

\* -1, 0 or 1 as a is below, equal to or above b.
BigCmp(a, b) ==
  IF Len(a) # Len(b) THEN (IF Len(a) < Len(b) THEN -1 ELSE 1) ELSE CmpFrom(a, b, Len(a))

RECURSIVE MulSmallFrom(_, _, _, _)
MulSmallFrom(a, k, i, carry) ==
  IF i > Len(a) THEN (IF carry = 0 THEN <<>> ELSE <<carry>>)
  ELSE LET p == a[i] * k + carry
       IN <<p % LimbBase>> \o MulSmallFrom(a, k, i + 1, p \div LimbBase)

\* a * k for 0 <= k < LimbBase.
BigMulSmall(a, k) == IF k = 0 THEN <<>> ELSE MulSmallFrom(a, k, 1, 0)

\* a * LimbBase^k.
LimbShift(a, k) == IF a = <<>> THEN <<>> ELSE [i \in 1..k |-> 0] \o a

RECURSIVE MulFrom(_, _, _)
MulFrom(a, b, j) ==
  IF j > Len(b) THEN <<>>
  ELSE BigAdd(LimbShift(BigMulSmall(a, b[j]), j - 1), MulFrom(a, b, j + 1))

BigMul(a, b) == MulFrom(a, b, 1)

RECURSIVE DivSmallFrom(_, _, _, _)
DivSmallFrom(a, k, i, rem) ==
  IF i = 0 THEN <<>>
  ELSE LET cur == rem * LimbBase + a[i]
       IN DivSmallFrom(a, k, i - 1, cur % k) \o <<cur \div k>>

\* a * 2^s and the whole part of a / 2^s.
BigShl(a, s) == LimbShift(BigMulSmall(a, Pow2(s % LimbBits)), s \div LimbBits)

BigShr(a, s) ==
  LET k == s \div LimbBits
      rest == IF k >= Len(a) THEN <<>> ELSE SubSeq(a, k + 1, Len(a))
  IN Trim(DivSmallFrom(rest, Pow2(s % LimbBits), Len(rest), 0))

RECURSIVE SmallBitLen(_)
SmallBitLen(k) == IF k = 0 THEN 0 ELSE 1 + SmallBitLen(k \div 2)

\* The number of bits of a.
BitLen(a) == IF a = <<>> THEN 0 ELSE LimbBits * (Len(a) - 1) + SmallBitLen(a[Len(a)])

\* Bit i of a, bit 0 the lowest.
Bit(a, i) == (Limb(a, i \div LimbBits + 1) \div Pow2(i % LimbBits)) % 2

RECURSIVE DivBits(_, _, _, _, _, _)
RECURSIVE DivStep(_, _, _, _, _, _)
\* Long division, one bit of a at a time from bit i down to bit stop: the
\* quotient q and the remainder r so far are doubled, the bit is brought
\* down, and d is taken off the remainder where it fits.
DivBits(a, d, i, stop, q, r) ==
  IF i < stop THEN [quot |-> q, rem |-> r]
  ELSE DivStep(a, d, i, stop, BigAdd(q, q),
               BigAdd(BigAdd(r, r), IF Bit(a, i) = 1 THEN <<1>> ELSE <<>>))

DivStep(a, d, i, stop, q2, r2) ==
  IF Len(q2) >= 0 /\ BigCmp(r2, d) >= 0
  THEN DivBits(a, d, i - 1, stop, BigAdd(q2, <<1>>), BigSub(r2, d))
  ELSE DivBits(a, d, i - 1, stop, q2, r2)

RECURSIVE DivFrom(_, _, _, _)
RECURSIVE DivNext(_, _, _, _)
\* The bits of a from bit i down, LimbBits bits at a time.
DivFrom(a, d, i, st) ==
  IF i < 0 THEN st
  ELSE DivNext(a, d, IF i < LimbBits THEN 0 ELSE i - LimbBits + 1,
               DivBits(a, d, i, IF i < LimbBits THEN 0 ELSE i - LimbBits + 1, st.quot, st.rem))

DivNext(a, d, stop, st) ==
  IF Len(st.quot) >= 0 /\ Len(st.rem) >= 0 THEN DivFrom(a, d, stop - 1, st) ELSE st

\* The whole part and the remainder of a / d, for d above 0.  The top bits
\* of a, one fewer than d has, are below d: the division starts with them
\* as the remainder.
BigDivMod(a, d) ==
  IF BitLen(a) < BitLen(d) THEN [quot |-> <<>>, rem |-> a]
  ELSE DivFrom(a, d, BitLen(a) - BitLen(d),
               [quot |-> <<>>, rem |-> BigShr(a, BitLen(a) - BitLen(d) + 1)])

RECURSIVE SqrtBits(_, _, _, _)
RECURSIVE SqrtStep(_, _, _, _, _)
\* The bits of the root from bit b down to bit stop: a bit is set if the
\* square of the root with it stays within a.
SqrtBits(a, b, stop, res) ==
  IF b < stop THEN res ELSE SqrtStep(a, b, stop, res, BigAdd(res, BigShl(<<1>>, b)))

\* a * a.
Square(a) == BigMul(a, a)

SqrtStep(a, b, stop, res, cand) ==
  IF BigCmp(Square(cand), a) <= 0
  THEN SqrtBits(a, b - 1, stop, cand)
  ELSE SqrtBits(a, b - 1, stop, res)

RECURSIVE SqrtFrom(_, _, _)
RECURSIVE SqrtNext(_, _, _)
\* The bits of the root from bit b down, LimbBits bits at a time.
SqrtFrom(a, b, res) ==
  IF b < 0 THEN res
  ELSE SqrtNext(a, IF b < LimbBits THEN 0 ELSE b - LimbBits + 1,
                SqrtBits(a, b, IF b < LimbBits THEN 0 ELSE b - LimbBits + 1, res))

SqrtNext(a, stop, res) == IF Len(res) >= 0 THEN SqrtFrom(a, stop - 1, res) ELSE res

\* The whole part of the square root of a.
BigSqrt(a) == SqrtFrom(a, BitLen(a) \div 2, <<>>)

\* a mod 2^s: the s lowest bits of a.
BigLow(a, s) ==
  Trim([i \in 1..(IF Len(a) <= s \div LimbBits THEN Len(a) ELSE s \div LimbBits + 1) |->
          IF i <= s \div LimbBits THEN a[i] ELSE a[i] % Pow2(s % LimbBits)])

\* A binary64 number: (-1)^neg * mant * 2^exp, mant either 0 or of exactly
\* MantissaBits bits.  (No value here is large or small enough to leave
\* the normal range.)
Binary64Zero == [neg |-> FALSE, mant |-> <<>>, exp |-> 0]

\* A significand that rounding up has carried to MantissaBits + 1 bits is
\* halved.
Normalised(neg, q, e) ==
  IF BitLen(q) > MantissaBits
  THEN [neg |-> neg, mant |-> BigShr(q, 1), exp |-> e + 1]
  ELSE [neg |-> neg, mant |-> q, exp |-> e]

\* Round to nearest, ties to even: q the bits kept, c the part dropped
\* compared with one half (-1, 0, 1), sticky whether more lies below it.
RoundNearestEven(neg, q, c, sticky, e) ==
  Normalised(neg,
             IF c > 0 \/ (c = 0 /\ (sticky \/ q[1] % 2 = 1)) THEN BigAdd(q, <<1>>) ELSE q,
             e)

\* a with its s lowest bits dropped, for s > 0, or with -s zero bits added.
RoundAt(neg, a, e, sticky, s) ==
  IF s <= 0 THEN [neg |-> neg, mant |-> BigShl(a, -s), exp |-> e + s]
  ELSE RoundNearestEven(neg, BigShr(a, s), BigCmp(BigLow(a, s), BigShl(<<1>>, s - 1)),
                        sticky, e + s)

\* The binary64 number nearest to (-1)^neg * (a + f) * 2^e, where f is 0,
\* or, with sticky, some fraction strictly between 0 and 1.
Round64(neg, a, e, sticky) ==
  IF a = <<>> THEN Binary64Zero ELSE RoundAt(neg, a, e, sticky, BitLen(a) - MantissaBits)

\* The binary64 number k * 2^e for an integer k (exact: k is small).
Binary64(k, e) == Round64(k < 0, ToBig(IF k < 0 THEN -k ELSE k), e, FALSE)

\* -x.
Neg64(x) == [x EXCEPT !.neg = ~x.neg]

\* The sum of (-1)^xn * a and (-1)^yn * b, times 2^e.
AddAligned(xn, a, yn, b, e) ==
  Round64(IF xn = yn \/ BigCmp(a, b) >= 0 THEN xn ELSE yn,
          IF xn = yn THEN BigAdd(a, b)
          ELSE IF BigCmp(a, b) >= 0 THEN BigSub(a, b) ELSE BigSub(b, a),
          e, FALSE)

\* x + y: the exact sum, rounded.
Add64(x, y) ==
  IF x.mant = <<>> THEN y
  ELSE IF y.mant = <<>> THEN x
  ELSE AddAligned(x.neg, BigShl(x.mant, IF x.exp < y.exp THEN 0 ELSE x.exp - y.exp),
                  y.neg, BigShl(y.mant, IF x.exp < y.exp THEN y.exp - x.exp ELSE 0),
                  IF x.exp < y.exp THEN x.exp ELSE y.exp)

\* x - y.
Sub64(x, y) == Add64(x, Neg64(y))

\* x * y: the exact product, rounded.
Mul64(x, y) == Round64(x.neg # y.neg, BigMul(x.mant, y.mant), x.exp + y.exp, FALSE)

\* The quotient d.quot, with something left below it if d.rem is not 0,
\* rounded.
DivRound(neg, d, e) == Round64(neg, d.quot, e, d.rem # <<>>)

\* x / y for y other than 0: 56 or 57 bits of the quotient, and whether
\* anything is left, rounded.
Div64(x, y) ==
  IF x.mant = <<>> THEN Binary64Zero
  ELSE DivRound(x.neg # y.neg, BigDivMod(BigShl(x.mant, MantissaBits + 3), y.mant),
                x.exp - y.exp - (MantissaBits + 3))

\* The root r of a, with something left below it if r * r is not a,
\* rounded.
SqrtRound(a, r, e) == Round64(FALSE, r, e, Square(r) # a)

\* The rounded square root of a, times 2^e.
SqrtOf(a, e) == SqrtRound(a, BigSqrt(a), e)

\* The square root of x >= 0: 56 bits of the root, and whether it is
\* exact, rounded.  x is mant * 2^k * 2^(exp - k) with exp - k even.
Sqrt64(x) ==
  IF x.mant = <<>> THEN Binary64Zero
  ELSE SqrtOf(BigShl(x.mant, MantissaBits + 5 + (x.exp % 2)),
              (x.exp - (MantissaBits + 5 + (x.exp % 2))) \div 2)

\* -1, 0 or 1 as x is below, equal to or above zero.
Sign64(x) == IF x.mant = <<>> THEN 0 ELSE IF x.neg THEN -1 ELSE 1

\* -1, 0 or 1 as |x| is below, equal to or above |y|, x and y other than
\* zero: the significands have the same number of bits, so the exponents
\* decide first.
CmpAbs64(x, y) ==
  IF x.exp # y.exp THEN (IF x.exp < y.exp THEN -1 ELSE 1) ELSE BigCmp(x.mant, y.mant)

\* x > y.
Greater64(x, y) ==
  IF Sign64(x) # Sign64(y) THEN Sign64(x) > Sign64(y)
  ELSE IF Sign64(x) = 0 THEN FALSE
  ELSE Sign64(x) * CmpAbs64(x, y) > 0

RECURSIVE BigToInt(_)
\* The integer of a short sequence of limbs.
BigToInt(a) == IF a = <<>> THEN 0 ELSE Head(a) + LimbBase * BigToInt(Tail(a))

\* The whole part of a / 2^s, plus one where the part dropped is above one
\* half, or is one half and the whole part is odd.
RintShift(a, s) ==
  LET q == BigToInt(BigShr(a, s))
      c == BigCmp(BigLow(a, s), BigShl(<<1>>, s - 1))
  IN IF c > 0 \/ (c = 0 /\ q % 2 = 1) THEN q + 1 ELSE q

\* np.rint(x) as an integer: the integer nearest to x, of two equally near
\* the even one.
Rint64(x) ==
  IF x.mant = <<>> THEN 0
  ELSE IF x.exp >= 0 THEN Sign64(x) * BigToInt(BigShl(x.mant, x.exp))
  ELSE Sign64(x) * RintShift(x.mant, -x.exp)

\* ------------------------------------------------------------------------
\* discrepancy.py: coherence, ranking, outliers
\* ------------------------------------------------------------------------

\* Numbers.  z_threshold and min_similarity are kept in tenths like
\* distance_threshold.  A similarity is -1, 0 or 1 and a deviation 0, 1 or
\* 2.  A mean of similarities is the fraction num / den, and a standard
\* deviation of similarities sqrt(sq) / den.  A z-score is the binary64
\* number the program computes.

\* x.num / x.den < y.num / y.den
RatLess(x, y) == x.num * y.den < y.num * x.den

\* The float nearest to a number of tenths: 2.0, 1.9, 0.5.
TenthsFloat(zt) == Div64(Binary64(zt, 0), Binary64(ThresholdScale, 0))

\* The thresholds of the runs, and their floats, computed once.
RunThresholds == 0..20

ThresholdFloats == {[tenths |-> t, float |-> TenthsFloat(t)] : t \in RunThresholds}

\* The float of a threshold given in tenths.
Threshold64(zt) ==
  IF zt \in RunThresholds
  THEN (CHOOSE r \in ThresholdFloats : r.tenths = zt).float
  ELSE TenthsFloat(zt)

\* A variant of the test of line 207 that also flags a z-score equal to
\* the threshold.
ZAtLeast(z, zt) == ~Greater64(zt, z)

\* "z_score > z_threshold", line 207, on two floats.
ZExceeds(z, zt) == Greater64(z, zt)

\* The similarities of the direct files of a folder to the folder, lines
\* 66-70 (every file node has an embedding).
FileSimilarities(ns, folder) ==
  [i \in 1..Len(ns[folder].files) |->
     cosine_similarity(ns[folder].files[i].embedding, ns[folder].embedding)]

\* compute_folder_coherence(folder): -1.0 without an embedding or without
\* files, else the mean of the similarities.
compute_folder_coherence(ns, folder) ==
  IF ns[folder].embedding = <<>> \/ ns[folder].files = <<>> THEN [num |-> -1, den |-> 1]
  ELSE LET similarities == FileSimilarities(ns, folder)
       IN [num |-> SumSeq(similarities), den |-> Len(similarities)]

\* compute_folder_variance(folder): np.std of the similarities as
\* sqrt(sq) / den; -1.0 without an embedding or files, 0.0 below two files.
compute_folder_variance(ns, folder) ==
  IF ns[folder].embedding = <<>> \/ ns[folder].files = <<>> THEN [sq |-> 1, den |-> -1]
  ELSE LET similarities == FileSimilarities(ns, folder)
           n == Len(similarities)
           S == SumSeq(similarities)
           Q == SumSeq([i \in 1..n |-> similarities[i] * similarities[i]])
       IN IF n < 2 THEN [sq |-> 0, den |-> 1] ELSE [sq |-> n * Q - S * S, den |-> n]

\* results.sort(key=lambda x: x.coherence): a stable sort, ascending.
RECURSIVE SortByCoherenceAsc(_)
SortByCoherenceAsc(results) ==
  IF results = <<>> THEN <<>>
  ELSE LET rest == SortByCoherenceAsc(Front(results))
           r == results[Len(results)]
           k == Cardinality({i \in 1..Len(rest) : ~RatLess(r.coherence, rest[i].coherence)})
       IN SubSeq(rest, 1, k) \o <<r>> \o SubSeq(rest, k + 1, Len(rest))

\* rank_incoherent_folders(root, min_files): a FolderAnalysis for every
\* folder of get_all_folders(root) with at least min_files files whose
\* coherence is not below zero, sorted by coherence ascending.
rank_incoherent_folders(ns, mf) ==
  LET kept == SelectSeq(get_all_folders(ns, FALSE),
                        LAMBDA n : /\ ~(Len(ns[n].files) < mf)
                                   /\ ~(compute_folder_coherence(ns, n).num < 0))
  IN SortByCoherenceAsc(
       [i \in 1..Len(kept) |->
          [folder |-> kept[i],
           coherence |-> compute_folder_coherence(ns, kept[i]),
           variance |-> compute_folder_variance(ns, kept[i]),
           file_count |-> Len(ns[kept[i]].files)]])

RECURSIVE InsertByZ(_, _)
\* o put into the sorted list os behind every item with a z-score at
\* least as large.
InsertByZ(o, os) ==
  IF os = <<>> THEN <<o>>
  ELSE IF Greater64(o.z_score, Head(os).z_score) THEN <<o>> \o os
  ELSE <<Head(os)>> \o InsertByZ(o, Tail(os))

RECURSIVE SortByZDesc(_)
\* outliers.sort(key=lambda x: x.z_score, reverse=True): a stable sort,
\* descending.
SortByZDesc(os) ==
  IF os = <<>> THEN <<>> ELSE InsertByZ(os[Len(os)], SortByZDesc(Front(os)))

\* A variant of lines 184-198 that takes the mean and the standard
\* deviation over the deviations of all files of the subtree of the folder.
RECURSIVE SubtreeFileNodes(_, _)
SubtreeFileNodes(ns, folder) ==
  ns[folder].files
  \o Flatten([i \in 1..Len(ns[folder].subfolders) |-> SubtreeFileNodes(ns, ns[folder].subfolders[i])])

\* Lines 184-191: the files whose deviations enter the statistics of the
\* folder, its direct files.
DeviationFiles(ns, folder) == ns[folder].files

\* Lines 187-191: dev = 1.0 - cosine_similarity(file.embedding, folder.embedding).
Deviation(ns, folder, file) == 1 - cosine_similarity(file.embedding, ns[folder].embedding)

RECURSIVE Sum64(_, _, _)
Sum64(xs, i, acc) == IF i > Len(xs) THEN acc ELSE Sum64(xs, i + 1, Add64(acc, xs[i]))

\* np.add.reduce on a short array: the items added one by one, first to last.
np_sum(xs) == Sum64(xs, 1, Binary64Zero)

\* np.mean: the sum divided by the number of items.
np_mean(xs) == Div64(np_sum(xs), Binary64(Len(xs), 0))

\* x - arrmean, item by item.
Centred(xs, arrmean) == [i \in 1..Len(xs) |-> Sub64(xs[i], arrmean)]

\* x * x, item by item.
Squares(x) == [i \in 1..Len(x) |-> Mul64(x[i], x[i])]

\* np.std: the square root of the mean of the squares of (x - mean).
np_std(xs) == Sqrt64(np_mean(Squares(Centred(xs, np_mean(xs)))))

\* Lines 200-206: no z-score when std_dev == 0, else
\* z_score = (dev - mean_dev) / std_dev for every deviation.
ZDivide(deviations, mean_dev, std_dev) ==
  IF std_dev.mant = <<>> THEN <<>>
  ELSE [i \in 1..Len(deviations) |-> Div64(Sub64(deviations[i], mean_dev), std_dev)]

\* Lines 197-206 on a list of two or more deviations, floats:
\* mean_dev = np.mean(deviations), std_dev = np.std(deviations), and the
\* z-scores, <<>> when std_dev == 0.
ZScores(deviations) == ZDivide(deviations, np_mean(deviations), np_std(deviations))

\* Lines 208-213: the FileOutlier of every flagged position.
ZRecords(deviations, z, flagged) ==
  [k \in 1..Len(flagged) |->
     [index |-> flagged[k], deviation |-> deviations[flagged[k]], z_score |-> z[flagged[k]]]]

\* Lines 205-216: the positions with z_score > z_threshold, by z-score
\* descending.
ZSelect(deviations, zt, z) ==
  IF z = <<>> THEN <<>>
  ELSE SortByZDesc(ZRecords(deviations, z,
                      SelectSeq([i \in 1..Len(deviations) |-> i], LAMBDA i : ZExceeds(z[i], zt))))

\* Lines 197-218 on a list of deviations that are floats.
ZOutliers64(deviations, zt) == ZSelect(deviations, zt, ZScores(deviations))

\* The floats of deviations that are whole numbers.
Floats(deviations) == [i \in 1..Len(deviations) |-> Binary64(deviations[i], 0)]

\* The lists of deviations of the folders of a run, and their z-scores,
\* computed once.
RunDeviations == UNION {[1..n -> 0..2] : n \in 2..MaxFiles}

RunScores == {[deviations |-> d, z |-> ZScores(Floats(d))] : d \in RunDeviations}

\* The z-scores of a list of whole deviations.
ScoresOf(deviations) ==
  IF deviations \in RunDeviations
  THEN (CHOOSE r \in RunScores : r.deviations = deviations).z
  ELSE ZScores(Floats(deviations))

\* Lines 196-218 on the list of deviations, whole numbers, and the
\* threshold in tenths: the positions whose z-score exceeds the threshold,
\* with their z-scores, by z-score descending; none when the standard
\* deviation is zero.
ZOutliers(deviations, zt) == ZSelect(deviations, Threshold64(zt), ScoresOf(deviations))

\* identify_outlier_files(folder, z_threshold): the FileOutlier objects.
identify_outlier_files(ns, folder, zt) ==
  IF ns[folder].embedding = <<>> \/ ns[folder].files = <<>> THEN <<>>
  ELSE LET files == DeviationFiles(ns, folder)
           deviations == [i \in 1..Len(files) |-> Deviation(ns, folder, files[i])]
           found == ZOutliers(deviations, zt)
       IN IF Len(deviations) < 2 THEN <<>>
          ELSE [k \in 1..Len(found) |->
                  [file |-> files[found[k].index], folder |-> folder,
                   deviation |-> found[k].deviation, z_score |-> found[k].z_score]]

\* identify_all_outliers(root, z_threshold, min_files): the outliers of the
\* folders with at least min_files files, pooled in the order of
\* get_all_folders and sorted by z-score descending.
identify_all_outliers(ns, zt, mf) ==
  LET kept == SelectSeq(get_all_folders(ns, FALSE), LAMBDA n : ~(Len(ns[n].files) < mf))
  IN SortByZDesc(Flatten([i \in 1..Len(kept) |-> identify_outlier_files(ns, kept[i], zt)]))

\* identify_outlier_files from line 193 on, called on a list of deviations:
\* lists of up to MaxDeviations values, among them those of a folder with
\* one deviating file, and a z_threshold of 1.9 or 2.0.
MaxDeviations == 5

DeviationValues == {0, 10, 100}

OutlierThresholds == {19, 20}

InitOutlier ==
  /\ dev_list \in UNION {[1..n -> DeviationValues] : n \in 0..MaxDeviations}
  /\ z_threshold \in OutlierThresholds
  /\ pc = "statistics"
  /\ flag_list = <<>>
  /\ run = 1
  /\ first = <<>>
  /\ mode = "none"
  /\ recompute_folders = FALSE
  /\ doc_emb = <<>>
  /\ doc_kind = "mapping"
  /\ dir_emb = [exists |-> FALSE, kind |-> "absent", data |-> <<>>]
  /\ folder_embeddings = <<>>
  /\ report = <<>>
  /\ log = <<>>
  /\ min_files = 0
  /\ top_k = 0
  /\ min_similarity = 0
  /\ folder_analyses = <<>>
  /\ outliers = <<>>
  /\ suggestions = <<>>
  /\ saved = <<>>
  /\ moves = <<>>
  /\ failure = "none"
  /\ TreeIdle
  /\ ClusterIdle

\* Lines 193-218: nothing below two deviations, else the positions whose
\* z-score exceeds the threshold.
FlagOutliers ==
  /\ pc = "statistics"
  /\ flag_list' = IF Len(dev_list) < 2 THEN <<>> ELSE ZOutliers(dev_list, z_threshold)
  /\ pc' = "flagged"
  /\ UNCHANGED <<treeVars, failure, clusterVars, paramVars, folder_analyses, outliers,
                 suggestions, saved, moves, mode, recompute_folders, doc_emb, dir_emb,
                 folder_embeddings, report, log>>

NextOutlier == FlagOutliers

SpecOutlier == InitOutlier /\ [][NextOutlier]_vars

\* C15: for deviations [0, 0, 0, 0, 100], and likewise [0, 0, 0, 0, 10],
\* and z_threshold = 2.0, identify_outlier_files flags exactly one file,
\* the one with the nonzero deviation.
C15_OneOutlierAtThresholdTwo ==
  (/\ pc = "flagged"
   /\ dev_list \in {<<0, 0, 0, 0, 100>>, <<0, 0, 0, 0, 10>>}
   /\ z_threshold = 20) =>
     /\ Len(flag_list) = 1
     /\ flag_list[1].index = 5

\* C15 amended: for deviations [0, 0, 0, 0, 100], and likewise
\* [0, 0, 0, 0, 10], the z-score of the file with the nonzero deviation is
\* exactly 2.0 (mean 20, std 40; mean 2, std 4); with z_threshold = 2.0
\* the strict test flags no file, and with z_threshold = 1.9 it flags
\* exactly that file.
C15_OneOutlierBelowThresholdTwo ==
  (pc = "flagged" /\ dev_list \in {<<0, 0, 0, 0, 100>>, <<0, 0, 0, 0, 10>>}) =>
     /\ z_threshold = 20 => flag_list = <<>>
     /\ z_threshold = 19 =>
           /\ Len(flag_list) = 1
           /\ flag_list[1].index = 5
           /\ flag_list[1].deviation = dev_list[5]
           /\ flag_list[1].z_score = Binary64(2, 0)

\* At z_threshold 1.9 the file with deviation 100 among four of deviation
\* 0 was flagged.
C15_Witness ==
  /\ pc = "flagged"
  /\ dev_list = <<0, 0, 0, 0, 100>>
  /\ z_threshold = 19
  /\ Len(flag_list) = 1

\* ------------------------------------------------------------------------
\* discrepancy.py: identify_outlier_files, lines 193-218, on deviations
\* that are not whole numbers (SpecFloat)
\* ------------------------------------------------------------------------

\* Deviations 1.0 - cosine_similarity as the program has them: of a file
\* at cosine float32(0.8) (embedding [4, 3] under a folder of embedding
\* [1, 0]), 0.19999998807907104; at cosine 0, 1.0; at cosine -0.75, 1.75.
Deviations64 == {Binary64(3355443, -24), Binary64(1, 0), Binary64(7, -2)}

InitFloat ==
  /\ dev_list \in UNION {[1..n -> Deviations64] : n \in 0..MaxDeviations}
  /\ z_threshold \in OutlierThresholds
  /\ pc = "statistics"
  /\ flag_list = <<>>
  /\ run = 1
  /\ first = <<>>
  /\ mode = "none"
  /\ recompute_folders = FALSE
  /\ doc_emb = <<>>
  /\ doc_kind = "mapping"
  /\ dir_emb = [exists |-> FALSE, kind |-> "absent", data |-> <<>>]
  /\ folder_embeddings = <<>>
  /\ report = <<>>
  /\ log = <<>>
  /\ min_files = 0
  /\ top_k = 0
  /\ min_similarity = 0
  /\ folder_analyses = <<>>
  /\ outliers = <<>>
  /\ suggestions = <<>>
  /\ saved = <<>>
  /\ moves = <<>>
  /\ failure = "none"
  /\ TreeIdle
  /\ ClusterIdle

\* Lines 193-218: nothing below two deviations, else the positions whose
\* z-score exceeds the threshold.
FlagOutliers64 ==
  /\ pc = "statistics"
  /\ flag_list' = IF Len(dev_list) < 2 THEN <<>>
                  ELSE ZOutliers64(dev_list, Threshold64(z_threshold))
  /\ pc' = "flagged"
  /\ UNCHANGED <<treeVars, failure, clusterVars, paramVars, folder_analyses, outliers,
                 suggestions, saved, moves, mode, recompute_folders, doc_emb, dir_emb,
                 folder_embeddings, report, log>>

NextFloat == FlagOutliers64

SpecFloat == InitFloat /\ [][NextFloat]_vars

\* C28: with z_threshold = 2.0, identify_outlier_files returns no outlier
\* for a folder with 5 or fewer direct files, whatever their deviations.
C28_NoOutlierUpToFiveFiles ==
  (pc = "flagged" /\ z_threshold = 20 /\ Len(dev_list) <= 5) =>
     flag_list = <<>>

\* ------------------------------------------------------------------------
\* suggestions.py: find_similar_folders, generate_suggestions;
\* inbox_organizer.py: find_matching_folders
\* ------------------------------------------------------------------------

\* "sim >= min_similarity", the floor in tenths; false for NaN.
AtLeastFloor(sim, floor) == sim # NaN /\ ThresholdScale * sim >= floor

\* suggestions.get_ancestor_paths(path): the loop from the parent of the
\* path upwards while str(p) is neither empty nor ".".  (On an absolute
\* path the loop does not end; no such path reaches it here.)
RECURSIVE AncestorsFrom(_)
AncestorsFrom(p) ==
  IF PathStr(p) # <<>> /\ PathStr(p) # <<".">>
  THEN {PathStr(p)} \cup AncestorsFrom(PathParent(p))
  ELSE {}

get_ancestor_paths(path) == AncestorsFrom(PathParent(PurePosixPath(path)))

\* A variant of line 100 that leaves the candidates in the order of the
\* folder embeddings.
KeepOrder(cs) == cs

\* candidates.sort(key=similarity, reverse=True): a stable sort,
\* descending, of records with a field similarity.
RECURSIVE SortBySimilarityDesc(_)
SortBySimilarityDesc(cs) ==
  IF cs = <<>> THEN <<>>
  ELSE LET rest == SortBySimilarityDesc(Front(cs))
           c == cs[Len(cs)]
           k == Cardinality({i \in 1..Len(rest) : rest[i].similarity >= c.similarity})
       IN SubSeq(rest, 1, k) \o <<c>> \o SubSeq(rest, k + 1, Len(rest))

\* s[:k] for k >= 0.
Take(s, k) == SubSeq(s, 1, IF k < Len(s) THEN k ELSE Len(s))

\* Lines 83-88 of find_similar_folders: the current folder of the file and
\* its ancestors, nothing for a file whose parent prints as ".".
ExcludePaths(file_path) ==
  LET current_folder == PathStr(PathParent(PurePosixPath(file_path)))
  IN IF current_folder # <<".">>
     THEN {current_folder} \cup get_ancestor_paths(file_path)
     ELSE {}

\* find_similar_folders(file, folder_embeddings, k): the RelocationCandidate
\* objects of the folders not excluded, by similarity descending, the
\* first k.
find_similar_folders(file, fe, k) ==
  LET exclude_paths == ExcludePaths(file.path)
      kept == SelectSeq(fe, LAMBDA e : e.path \notin exclude_paths)
      candidates == [i \in 1..Len(kept) |->
                       [folder_path |-> kept[i].path,
                        similarity |-> cosine_similarity(file.embedding, kept[i].embedding)]]
  IN Take(SortBySimilarityDesc(candidates), k)

\* A variant of lines 134-142 that keeps a suggestion without candidates.
KeepSuggestion(candidates) == TRUE

\* "if candidates:", line 134.
HasCandidates(candidates) == candidates # <<>>

\* generate_suggestions(outliers, folder_embeddings, k, min_similarity).
generate_suggestions(ns, os, fe, k, floor) ==
  LET Candidates(o) ==
        Take(SelectSeq(find_similar_folders(o.file, fe, k * 2),
                       LAMBDA c : AtLeastFloor(c.similarity, floor)), k)
      kept == SelectSeq(os, LAMBDA o : HasCandidates(Candidates(o)))
  IN [i \in 1..Len(kept) |->
        [file_path |-> kept[i].file.path,
         current_folder |-> ns[kept[i].folder].path,
         deviation_score |-> kept[i].deviation,
         z_score |-> kept[i].z_score,
         candidates |-> Candidates(kept[i])]]

\* '/' + inbox_prefix + '/' in '/' + folder_path + '/': the prefix is a run
\* of whole segments of the folder path.
HasComponents(path, prefix) ==
  \E k \in 0..(Len(path) - Len(prefix)) : SubSeq(path, k + 1, k + Len(prefix)) = prefix

\* A variant of lines 96-99 that tests the start of the folder path only.
WithinInboxAtStart(folder_path, prefix) ==
  \/ Len(folder_path) > Len(prefix) /\ SubSeq(folder_path, 1, Len(prefix)) = prefix
  \/ folder_path = prefix

\* Lines 96-99 of find_matching_folders: the folder lies within the inbox.
WithinInbox(folder_path, prefix) ==
  \/ Len(folder_path) > Len(prefix) /\ SubSeq(folder_path, 1, Len(prefix)) = prefix
  \/ folder_path = prefix
  \/ HasComponents(folder_path, prefix)

\* find_matching_folders(cluster, folder_embeddings, inbox_prefix, k,
\* min_similarity): the (folder_path, similarity) pairs, here records, of
\* the folders outside the inbox other than "" and "." whose similarity to
\* the centroid reaches the floor, by similarity descending, the first k.
find_matching_folders(cluster, fe, prefix, k, floor) ==
  LET kept == SelectSeq(fe, LAMBDA e :
                  /\ ~WithinInbox(e.path, prefix)
                  /\ ~(e.path = <<>> \/ e.path = <<".">>)
                  /\ AtLeastFloor(cosine_similarity(cluster.centroid, e.embedding), floor))
      candidates == [i \in 1..Len(kept) |->
                       [folder_path |-> kept[i].path,
                        similarity |-> cosine_similarity(cluster.centroid, kept[i].embedding)]]
  IN Take(SortBySimilarityDesc(candidates), k)

\* ------------------------------------------------------------------------
\* suggestions.py: Suggestion.to_dict, AnalysisReport.to_dict and save;
\* vault_organizer.py: the moves command
\* ------------------------------------------------------------------------

\* The digits to_dict keeps of deviation_score and similarity, and of
\* z_score.
ScorePlaces == 4

ZPlaces == 2

RECURSIVE Pow10(_)
Pow10(n) == IF n = 0 THEN 1 ELSE 10 * Pow10(n - 1)

\* A number of the report file is a decimal [num, den]: num / den.

\* round(x, places) of an integer x.
Round(x, places) == [num |-> x * Pow10(places), den |-> Pow10(places)]

\* round(z, places) of a z-score.  z is the numpy.float64 of line 206 of
\* discrepancy.py, and its round is numpy's: rint(z * 10^places) divided
\* by 10^places.  The quotient is the float nearest to the decimal
\* k / 10^places, and json.dump writes it as that decimal.
RoundZ(z, places) ==
  [num |-> Rint64(Mul64(z, Binary64(Pow10(places), 0))), den |-> Pow10(places)]

\* Suggestion.to_dict()
Suggestion_to_dict(self) ==
  [file_path |-> self.file_path,
   current_folder |-> self.current_folder,
   deviation_score |-> Round(self.deviation_score, ScorePlaces),
   z_score |-> RoundZ(self.z_score, ZPlaces),
   candidates |-> [k \in 1..Len(self.candidates) |->
                     [folder |-> self.candidates[k].folder_path,
                      similarity |-> Round(self.candidates[k].similarity, ScorePlaces)]]]

\* AnalysisReport.to_dict(), analysis_date left out.
AnalysisReport_to_dict(self) ==
  [total_files |-> self.total_files,
   total_folders |-> self.total_folders,
   outlier_count |-> self.outlier_count,
   z_threshold |-> self.z_threshold,
   suggestions |-> [i \in 1..Len(self.suggestions) |-> Suggestion_to_dict(self.suggestions[i])]]

\* Lines 317-331 of main: the Suggestion objects made of
\* data.get("suggestions", []).
ReconstructSuggestions(data) ==
  [i \in 1..Len(data.suggestions) |->
     LET d == data.suggestions[i]
     IN [file_path |-> d.file_path,
         current_folder |-> d.current_folder,
         deviation_score |-> d.deviation_score,
         z_score |-> d.z_score,
         candidates |-> [k \in 1..Len(d.candidates) |->
                           [folder_path |-> d.candidates[k].folder,
                            similarity |-> d.candidates[k].similarity]]]]

\* ------------------------------------------------------------------------
\* vault_organizer.py: analyze_vault; inbox_organizer.py: organize_inbox
\* ------------------------------------------------------------------------

\* A variant of the test of the cache that lacks the negation.
UseCacheWhenForced(recompute, exists) == recompute /\ exists

\* "if not recompute_folders and dir_emb_file.exists()".
UseCache(recompute, exists) == ~recompute /\ exists

\* A variant of lines 126-128 that leaves the folders of the tree without
\* the cached vectors.
LeaveUnassigned(ns, data) == ns

\* Lines 126-128 of analyze_vault: the cached vectors assigned to the
\* folders of all_folders whose path is a key of the cache.
AssignCached(ns, data) ==
  LET all_folders == Range(get_all_folders(ns, FALSE))
  IN [n \in 1..Len(ns) |->
        IF n \in all_folders /\ ns[n].path \in Keys(data)
        THEN [ns[n] EXCEPT !.embedding = data[Lookup(data, ns[n].path)].embedding]
        ELSE ns[n]]

\* path.startswith(prefix + '/')
StartsWithDir(path, prefix) ==
  Len(path) > Len(prefix) /\ SubSeq(path, 1, Len(prefix)) = prefix

\* '/' + prefix + '/' in path
ContainsDir(path, prefix) ==
  \E k \in 1..Len(path) :
     /\ k + Len(prefix) < Len(path)
     /\ SubSeq(path, k + 1, k + Len(prefix)) = prefix

\* path.startswith(prefix + '\\'), on the characters of the two strings.
StartsWithBackslash(path, prefix) ==
  LET head == PathString(prefix) \o <<"\\">>
  IN Len(PathString(path)) >= Len(head) /\ SubSeq(PathString(path), 1, Len(head)) = head

\* load_inbox_files(inbox_prefix, all_embeddings): lines 74 and 76.
load_inbox_files(prefix, all_embeddings) ==
  SelectSeq(all_embeddings,
            LAMBDA e : StartsWithDir(e.path, prefix) \/ StartsWithBackslash(e.path, prefix)
                       \/ ContainsDir(e.path, prefix) \/ e.path = prefix)

\* Lines 254-257 of organize_inbox.
non_inbox_embeddings(prefix, all_embeddings) ==
  SelectSeq(all_embeddings, LAMBDA e : ~StartsWithDir(e.path, prefix))

\* get_all_files(root): the file nodes, folder by folder in pre-order.
get_all_files(ns) ==
  Flatten([i \in 1..Len(Traverse(ns, 1)) |-> ns[Traverse(ns, 1)[i]].files])

\* The states of the file at doc_emb_path before a run: a JSON object of
\* vectors (possibly {}), no file, or a file of zero bytes.
DocKinds == {"mapping", "absent", "empty_file"}

\* load_embeddings_from_json(path): [raised, data].  open raises
\* FileNotFoundError on a missing file and json.load raises
\* JSONDecodeError on an empty one.
load_embeddings_from_json(kind, data) ==
  IF kind = "absent" THEN [raised |-> "FileNotFoundError", data |-> <<>>]
  ELSE IF kind = "empty_file" THEN [raised |-> "JSONDecodeError", data |-> <<>>]
  ELSE [raised |-> "none", data |-> data]

\* The defaults of analyze_vault for z_threshold (2.0), min_files, top_k
\* and min_similarity (0.5).
DefaultZThreshold == 20

DefaultMinFiles == 3

DefaultTopK == 3

DefaultMinSimilarity == 5

\* Largest number of entries of doc_emb.json in a run of analyze_vault
\* under InitAnalysis.
MaxVaultDocs == 3

\* File paths of doc_emb.json for the analysis of a vault: three files of
\* folder A and one of each of two subfolders.
VaultPaths ==
  { <<"A", "b.md">>, <<"A", "c.md">>, <<"A", "e.md">>, <<"A", "B", "d.md">>,
    <<"A", "C", "f.md">> }

\* File paths of doc_emb.json for a run of organize_inbox.
InboxRunPaths ==
  { <<"Inbox", "x.md">>, <<"Inbox", "y.md">>, <<"A", "Inbox", "z.md">>, <<"A", "b.md">>,
    <<"Inbox\\x.md">> }

\* The cache file before a run under InitAnalysis: absent, or vectors for
\* the vault root directory, folders of the vault, a folder of another
\* vault, the inbox and a nested folder named like the inbox.
AnalysisCaches ==
  {[exists |-> FALSE, kind |-> "absent", data |-> <<>>]}
  \cup {[exists |-> TRUE, kind |-> "mapping",
          data |-> <<[path |-> <<".">>, embedding |-> v],
                     [path |-> <<"Inbox">>, embedding |-> v],
                     [path |-> <<"A">>, embedding |-> w],
                     [path |-> <<"A", "B">>, embedding |-> w],
                     [path |-> <<"A", "Inbox">>, embedding |-> t],
                     [path |-> <<"Z">>, embedding |-> t]>>] :
          v \in CacheValues, w \in CacheValues, t \in CacheValues}

\* Arguments of analyze_vault under InitAnalysis: the defaults, and values
\* that admit folders of one or two files.
VaultParameters ==
  { [z_threshold |-> DefaultZThreshold, min_files |-> DefaultMinFiles, top_k |-> DefaultTopK,
     min_similarity |-> DefaultMinSimilarity, distance_threshold |-> DefaultDistanceThreshold],
    [z_threshold |-> 5, min_files |-> 2, top_k |-> 1,
     min_similarity |-> 5, distance_threshold |-> DefaultDistanceThreshold],
    [z_threshold |-> 10, min_files |-> 1, top_k |-> 3,
     min_similarity |-> -10, distance_threshold |-> DefaultDistanceThreshold] }

\* Arguments of organize_inbox under InitAnalysis: its defaults, which are
\* those of analyze_vault, and a run that keeps one candidate of any
\* similarity.
InboxParameters ==
  { [z_threshold |-> 0, min_files |-> 0, top_k |-> DefaultTopK,
     min_similarity |-> DefaultMinSimilarity, distance_threshold |-> DefaultDistanceThreshold],
    [z_threshold |-> 0, min_files |-> 0, top_k |-> 1,
     min_similarity |-> -10, distance_threshold |-> DefaultDistanceThreshold] }

\* The state of a run before its first step.
RunStart ==
  /\ pc = "load_docs"
  /\ folder_embeddings = <<>>
  /\ report = <<>>
  /\ log = <<>>
  /\ folder_analyses = <<>>
  /\ outliers = <<>>
  /\ suggestions = <<>>
  /\ saved = <<>>
  /\ moves = <<>>
  /\ dev_list = <<>>
  /\ flag_list = <<>>
  /\ run = 1
  /\ first = <<>>
  /\ failure = "none"
  /\ TreeIdle
  /\ embeddings = <<>>
  /\ cpc = "idle"
  /\ clusters = <<>>
  /\ max_words = 0
  /\ label = <<>>

Init ==
  /\ mode \in {"analyze_vault", "organize_inbox"}
  /\ recompute_folders \in BOOLEAN
  /\ doc_kind \in DocKinds
  /\ doc_emb \in IF doc_kind = "mapping"
                 THEN UNION {Dicts(RunPaths, EmbValues, n) : n \in 0..MaxDocs}
                 ELSE {<<>>}
  /\ dir_emb \in CacheFiles
  /\ z_threshold = DefaultZThreshold
  /\ min_files = DefaultMinFiles
  /\ top_k = DefaultTopK
  /\ min_similarity = DefaultMinSimilarity
  /\ distance_threshold = DefaultDistanceThreshold
  /\ RunStart

\* A run of analyze_vault or organize_inbox on inputs chosen for the
\* analysis: up to MaxVaultDocs files of folder A and its subfolder, or up
\* to MaxDocs files in and around the inbox; no cache file or a cache of
\* folder vectors; parameters that let small folders be analysed.
InitAnalysis ==
  /\ mode \in {"analyze_vault", "organize_inbox"}
  /\ recompute_folders = FALSE
  /\ doc_kind = "mapping"
  /\ doc_emb \in IF mode = "analyze_vault"
                 THEN UNION {Dicts(VaultPaths, EmbValues, n) : n \in 0..MaxVaultDocs}
                 ELSE UNION {Dicts(InboxRunPaths, EmbValues, n) : n \in 0..MaxDocs}
  /\ dir_emb \in AnalysisCaches
  /\ \E p \in IF mode = "analyze_vault" THEN VaultParameters ELSE InboxParameters :
        /\ z_threshold = p.z_threshold
        /\ min_files = p.min_files
        /\ top_k = p.top_k
        /\ min_similarity = p.min_similarity
        /\ distance_threshold = p.distance_threshold
  /\ RunStart

\* Step 1 of both pipelines: load_embeddings_from_json(doc_emb_path).  A
\* file that is missing or holds no JSON ends the run with the exception
\* of open or of json.load.
LoadDocs ==
  /\ pc = "load_docs"
  /\ log' = Append(log, "load_docs")
  /\ LET r == load_embeddings_from_json(doc_kind, doc_emb)
     IN IF r.raised # "none"
        THEN /\ failure' = r.raised
             /\ pc' = "failed"
             /\ UNCHANGED file_embeddings
        ELSE /\ IF mode = "analyze_vault"
                THEN /\ file_embeddings' = r.data
                     /\ pc' = "build_tree"
                ELSE /\ pc' = "extract_inbox"
                     /\ UNCHANGED file_embeddings
             /\ UNCHANGED failure
  /\ UNCHANGED <<tpc, idx, nodes, folder_cache, stack, visited, clusterVars,
                 paramVars, resultVars, mode, recompute_folders, doc_emb, dir_emb, folder_embeddings, report>>

\* Step 2 of analyze_vault: build_tree, get_all_folders, get_all_files.
BuildTree ==
  /\ pc = "build_tree"
  /\ LET t == build_tree(file_embeddings)
     IN /\ nodes' = t.nodes
        /\ folder_cache' = t.folder_cache
  /\ log' = Append(log, "build_tree")
  /\ pc' = "folders"
  /\ UNCHANGED <<file_embeddings, tpc, idx, stack, visited, failure, clusterVars,
                 paramVars, resultVars, mode, recompute_folders, doc_emb, dir_emb, folder_embeddings, report>>

\* Step 2 of organize_inbox: load_inbox_files, and the early return of an
\* empty report when no file matches the prefix.
ExtractInbox ==
  /\ pc = "extract_inbox"
  /\ embeddings' = load_inbox_files(InboxPrefix, doc_emb)
  /\ log' = Append(log, "extract_inbox")
  /\ IF embeddings' = <<>>
     THEN /\ report' = <<[kind |-> "InboxReport", inbox_path |-> InboxPrefix,
                           total_files |-> 0, cluster_count |-> 0,
                           distance_threshold |-> distance_threshold, suggestions |-> <<>>]>>
          /\ pc' = "done"
     ELSE /\ pc' = "cluster"
          /\ UNCHANGED report
  /\ UNCHANGED <<treeVars, failure, distance_threshold, cpc, clusters, max_words, label,
                 paramVars, resultVars, mode, recompute_folders, doc_emb, dir_emb, folder_embeddings>>

\* Step 3 of organize_inbox: cluster_files on the inbox files, then
\* label_all_clusters.
Cluster ==
  /\ pc = "cluster"
  /\ log' = Append(log, "cluster")
  /\ LET r == cluster_files(embeddings, distance_threshold)
     IN IF r.raised # "none"
        THEN /\ failure' = r.raised
             /\ pc' = "failed"
             /\ UNCHANGED clusters
        ELSE /\ clusters' = label_all_clusters(r.clusters)
             /\ pc' = "folders"
             /\ UNCHANGED failure
  /\ UNCHANGED <<treeVars, embeddings, distance_threshold, cpc, max_words, label,
                 paramVars, resultVars, mode, recompute_folders, doc_emb, dir_emb, folder_embeddings, report>>

\* The cached branch of the folder-embedding step of both pipelines:
\* load_folder_embeddings, and in analyze_vault the assignment to the tree.
LoadCache ==
  /\ pc = "folders"
  /\ UseCache(recompute_folders, dir_emb.exists)
  /\ log' = Append(log, "cache_read")
  /\ LET r == load_folder_embeddings(dir_emb)
     IN IF r.raised # "none"
        THEN /\ failure' = r.raised
             /\ pc' = "failed"
             /\ UNCHANGED <<nodes, folder_embeddings>>
        ELSE /\ folder_embeddings' = r.data
             /\ nodes' = IF mode = "analyze_vault" THEN AssignCached(nodes, r.data) ELSE nodes
             /\ pc' = IF mode = "analyze_vault" THEN "rank" ELSE "match"
             /\ UNCHANGED failure
  /\ UNCHANGED <<file_embeddings, tpc, idx, folder_cache, stack, visited, clusterVars,
                 paramVars, resultVars, mode, recompute_folders, doc_emb, dir_emb, report>>

\* The computing branch of organize_inbox, first part: build_tree on the
\* files outside the inbox.
BuildTreeNonInbox ==
  /\ pc = "folders"
  /\ mode = "organize_inbox"
  /\ ~UseCache(recompute_folders, dir_emb.exists)
  /\ file_embeddings' = non_inbox_embeddings(InboxPrefix, doc_emb)
  /\ LET t == build_tree(file_embeddings')
     IN /\ nodes' = t.nodes
        /\ folder_cache' = t.folder_cache
  /\ log' = Append(log, "build_tree")
  /\ pc' = "aggregate"
  /\ UNCHANGED <<tpc, idx, stack, visited, failure, clusterVars,
                 paramVars, resultVars, mode, recompute_folders, doc_emb, dir_emb, folder_embeddings, report>>

\* The computing branch of both pipelines: compute_folder_embeddings(root).
Aggregate ==
  /\ \/ pc = "aggregate"
     \/ pc = "folders" /\ mode = "analyze_vault" /\ ~UseCache(recompute_folders, dir_emb.exists)
  /\ nodes' = compute_folder_embeddings(nodes, 1)
  /\ log' = Append(log, "aggregate")
  /\ pc' = "save"
  /\ UNCHANGED <<file_embeddings, tpc, idx, folder_cache, stack, visited, failure, clusterVars,
                 paramVars, resultVars, mode, recompute_folders, doc_emb, dir_emb, folder_embeddings, report>>

\* A variant of the saving step that loads the file it has just written.
SaveCacheAndReload ==
  /\ pc = "save"
  /\ log' = log \o <<"cache_write", "cache_read">>
  /\ dir_emb' = [exists |-> TRUE, kind |-> "mapping", data |-> folder_embeddings_to_dict(nodes)]
  /\ folder_embeddings' = load_folder_embeddings(dir_emb').data
  /\ pc' = IF mode = "analyze_vault" THEN "rank" ELSE "match"
  /\ UNCHANGED <<treeVars, failure, clusterVars, paramVars, resultVars, mode, recompute_folders, doc_emb, report>>

\* save_folder_embeddings(root, dir_emb_path) and
\* folder_embeddings = folder_embeddings_to_dict(root).  A file that cannot
\* be opened cannot be written either.
SaveCache ==
  /\ pc = "save"
  /\ log' = Append(log, "cache_write")
  /\ IF dir_emb.kind = "unreadable"
     THEN /\ failure' = "OSError"
          /\ pc' = "failed"
          /\ UNCHANGED <<dir_emb, folder_embeddings>>
     ELSE /\ dir_emb' = [exists |-> TRUE, kind |-> "mapping",
                         data |-> folder_embeddings_to_dict(nodes)]
          /\ folder_embeddings' = folder_embeddings_to_dict(nodes)
          /\ pc' = IF mode = "analyze_vault" THEN "rank" ELSE "match"
          /\ UNCHANGED failure
  /\ UNCHANGED <<treeVars, clusterVars, paramVars, resultVars, mode, recompute_folders, doc_emb, report>>

\* Step 4 of analyze_vault: rank_incoherent_folders(root, min_files).
Rank ==
  /\ pc = "rank"
  /\ log' = Append(log, "rank")
  /\ folder_analyses' = rank_incoherent_folders(nodes, min_files)
  /\ pc' = "outliers"
  /\ UNCHANGED <<treeVars, failure, clusterVars, paramVars, outliers, suggestions, saved, moves, flag_list,
                 mode, recompute_folders, doc_emb, dir_emb, folder_embeddings, report>>

\* Step 5 of analyze_vault: identify_all_outliers(root, z_threshold, min_files).
Outliers ==
  /\ pc = "outliers"
  /\ log' = Append(log, "outliers")
  /\ outliers' = identify_all_outliers(nodes, z_threshold, min_files)
  /\ pc' = "suggest"
  /\ UNCHANGED <<treeVars, failure, clusterVars, paramVars, folder_analyses, suggestions, saved,
                 moves, flag_list, mode, recompute_folders, doc_emb, dir_emb, folder_embeddings, report>>

\* Step 6 of analyze_vault: generate_suggestions(outliers, folder_emb_np,
\* k=top_k_suggestions, min_similarity=min_similarity).
Suggest ==
  /\ pc = "suggest"
  /\ log' = Append(log, "suggest")
  /\ suggestions' = generate_suggestions(nodes, outliers, folder_embeddings, top_k, min_similarity)
  /\ pc' = "report"
  /\ UNCHANGED <<treeVars, failure, clusterVars, paramVars, folder_analyses, outliers, saved,
                 moves, flag_list, mode, recompute_folders, doc_emb, dir_emb, folder_embeddings, report>>

\* Step 5 of organize_inbox: find_matching_folders for every cluster, and
\* a ClusterSuggestion appended for every cluster.
Match ==
  /\ pc = "match"
  /\ log' = Append(log, "match")
  /\ suggestions' =
        [i \in 1..Len(clusters) |->
           [cluster_id |-> clusters[i].cluster_id,
            files |-> clusters[i].files,
            file_count |-> Len(clusters[i].files),
            label |-> clusters[i].label,
            coherence |-> clusters[i].coherence,
            candidates |-> find_matching_folders(clusters[i], folder_embeddings, InboxPrefix,
                                                 top_k, min_similarity)]]
  /\ pc' = "report"
  /\ UNCHANGED <<treeVars, failure, clusterVars, paramVars, folder_analyses, outliers, saved,
                 moves, flag_list, mode, recompute_folders, doc_emb, dir_emb, folder_embeddings, report>>

\* The report is created and returned.  (analysis_date, the time of the
\* run, is left out.)
ReturnReport ==
  /\ pc = "report"
  /\ log' = Append(log, "report")
  /\ report' = IF mode = "analyze_vault"
               THEN <<[kind |-> "AnalysisReport",
                       total_files |-> Len(get_all_files(nodes)),
                       total_folders |-> Len(get_all_folders(nodes, FALSE)),
                       outlier_count |-> Len(outliers),
                       z_threshold |-> z_threshold,
                       suggestions |-> suggestions]>>
               ELSE <<[kind |-> "InboxReport", inbox_path |-> InboxPrefix,
                       total_files |-> Len(embeddings),
                       cluster_count |-> Len(clusters),
                       distance_threshold |-> distance_threshold,
                       suggestions |-> suggestions]>>
  /\ pc' = "done"
  /\ UNCHANGED <<treeVars, failure, clusterVars,
                 paramVars, resultVars, mode, recompute_folders, doc_emb, dir_emb, folder_embeddings>>

\* The analyze command of main: report.save(args.output) writes
\* json.dump(report.to_dict()) to the report file.
SaveReport ==
  /\ pc = "done"
  /\ mode = "analyze_vault"
  /\ report # <<>>
  /\ saved' = <<AnalysisReport_to_dict(report[1])>>
  /\ log' = Append(log, "save_report")
  /\ pc' = "saved"
  /\ UNCHANGED <<treeVars, failure, clusterVars, paramVars, folder_analyses, outliers, suggestions,
                 moves, flag_list, mode, recompute_folders, doc_emb, dir_emb, folder_embeddings,
                 report>>

\* The moves command of main: json.load of the report file and the
\* reconstruction of the suggestions.
Moves ==
  /\ pc = "saved"
  /\ moves' = ReconstructSuggestions(saved[1])
  /\ log' = Append(log, "moves")
  /\ pc' = "moved"
  /\ UNCHANGED <<treeVars, failure, clusterVars, paramVars, folder_analyses, outliers, suggestions,
                 saved, flag_list, mode, recompute_folders, doc_emb, dir_emb, folder_embeddings,
                 report>>

Next ==
  \/ LoadDocs \/ BuildTree \/ ExtractInbox \/ Cluster \/ LoadCache
  \/ BuildTreeNonInbox \/ Aggregate \/ SaveCache
  \/ Rank \/ Outliers \/ Suggest \/ Match \/ ReturnReport
  \/ SaveReport \/ Moves

Spec == Init /\ [][Next]_vars

SpecAnalysis == InitAnalysis /\ [][Next]_vars

\* ------------------------------------------------------------------------
\* Properties of the use of the folder-embedding cache (Spec)
\* ------------------------------------------------------------------------

\* The positions of a step in the log of the run.
Positions(step) == {i \in 1..Len(log) : log[i] = step}

\* The steps that use folder embeddings, and the step that computes them.
AnalysisSteps == {"rank", "outliers", "suggest", "match"}

\* The run found the cache file present and was not told to recompute: the
\* run itself creates the file only by writing it.
CachedRun == ~recompute_folders /\ dir_emb.exists /\ Positions("cache_write") = {}

\* C6: in a run of analyze_vault or organize_inbox that finds the cache
\* file and is not forced to recompute, compute_folder_embeddings is never
\* called, and once analyze_vault has loaded the cache every folder of the
\* tree whose path is a key of the cache has the cached vector as its
\* embedding.
C6_CacheSkipsAggregator ==
  CachedRun =>
     /\ Positions("aggregate") = {}
     /\ (mode = "analyze_vault" /\ Positions("cache_read") # {} /\ failure = "none") =>
           \A n \in Folders :
              nodes[n].path \in Keys(dir_emb.data) =>
                 nodes[n].embedding = load_folder_embeddings(dir_emb).data[Lookup(dir_emb.data, nodes[n].path)].embedding

\* analyze_vault returned its report after giving folder A/B of the tree
\* the vector the cache holds for it.
C6_Witness ==
  /\ CachedRun
  /\ mode = "analyze_vault"
  /\ pc = "done"
  /\ dir_emb.kind = "mapping"
  /\ \E n \in Folders : /\ nodes[n].path = <<"A", "B">>
                        /\ nodes[n].path \in Keys(dir_emb.data)
                        /\ nodes[n].embedding = <<-1>>

\* The parts of C7 that do not depend on where in the run the write is: at
\* most one read, at most one write, never both, and the read comes before
\* every step that uses folder embeddings.
ReadWriteOnce ==
  /\ Cardinality(Positions("cache_read")) <= 1
  /\ Cardinality(Positions("cache_write")) <= 1
  /\ \A r \in Positions("cache_read") : \A w \in Positions("cache_write") : r < w
  /\ \A r \in Positions("cache_read") : \A i \in 1..Len(log) :
        log[i] \in AnalysisSteps \cup {"aggregate"} => r < i

\* C7 as stated: the cache is read at most once, at the start of the run,
\* and written at most once, at the end of the run, after the steps that
\* work on the folder embeddings; no read follows a write.
C7_ReadAtStartWriteAtEnd ==
  /\ ReadWriteOnce
  /\ \A w \in Positions("cache_write") : \A i \in 1..Len(log) :
        log[i] \in AnalysisSteps \cup {"aggregate"} => i < w

\* C7 amended: the cache is read at most once, before every step that uses
\* folder embeddings; it is written at most once, directly after the
\* aggregation and before every analysis or matching step of the run; no
\* read follows a write, and a run that reads the cache does not write it.
C7_ReadOnceWriteAfterAggregation ==
  /\ ReadWriteOnce
  /\ Positions("cache_read") = {} \/ Positions("cache_write") = {}
  /\ \A w \in Positions("cache_write") :
        /\ w > 1 /\ log[w - 1] = "aggregate"
        /\ \A i \in 1..Len(log) : log[i] \in AnalysisSteps => w < i

\* A run of organize_inbox wrote the cache and went on to match clusters.
C7_Witness ==
  /\ mode = "organize_inbox"
  /\ pc = "done"
  /\ Positions("cache_write") # {}
  /\ Positions("match") # {}

\* C8: a run that finds the cache file, is not forced to recompute and
\* reads a malformed or unreadable cache ends with a fatal error: it
\* returns no report and does not compute the folder embeddings instead.
C8_MalformedCacheIsFatal ==
  (CachedRun /\ dir_emb.kind \in MalformedKinds /\ Positions("cache_read") # {}) =>
     /\ report = <<>>
     /\ Positions("aggregate") = {}
     /\ pc \in {"failed", "done"} => failure # "none"

\* ------------------------------------------------------------------------
\* Properties of the analysis of a vault and of an inbox (SpecAnalysis)
\* ------------------------------------------------------------------------

\* The folders rank_incoherent_folders has to rank according to C13: the
\* folders other than the root that have an embedding and at least
\* min_files direct files.
RankedFolders ==
  {n \in Range(get_all_folders(nodes, FALSE)) :
     nodes[n].embedding # <<>> /\ Len(nodes[n].files) >= min_files}

\* C13: once analyze_vault has ranked the folders, folder_analyses holds
\* one entry for every folder other than the root that has an embedding
\* and at least min_files direct files, whatever its coherence, a negative
\* mean similarity included, and the entries are in ascending order of
\* coherence.
C13_RankCoversEveryFolder ==
  Positions("rank") # {} =>
     /\ \A n \in RankedFolders :
           Cardinality({i \in 1..Len(folder_analyses) : folder_analyses[i].folder = n}) = 1
     /\ \A i, j \in 1..Len(folder_analyses) :
           i < j => ~RatLess(folder_analyses[j].coherence, folder_analyses[i].coherence)

\* A folder C14 addresses: one of get_all_folders with an embedding and at
\* least min_files direct files.
AnalysedFolders ==
  {n \in Range(get_all_folders(nodes, FALSE)) :
     nodes[n].embedding # <<>> /\ ~(Len(nodes[n].files) < min_files)}

\* The deviations 1 - cos(file, folder) of the direct files of a folder.
DirectDeviations(n) ==
  [i \in 1..Len(nodes[n].files) |->
     1 - cosine_similarity(nodes[n].files[i].embedding, nodes[n].embedding)]

\* (d[i] - mean) / std > z_threshold in the floats of the program, mean
\* and std those of np.mean and np.std over the values of d: there are two
\* values or more, std is not zero, and the quotient lies above the
\* threshold.
AboveThreshold(d, i) ==
  /\ Len(d) >= 2
  /\ ScoresOf(d) # <<>>
  /\ Greater64(ScoresOf(d)[i], Threshold64(z_threshold))

\* The file is among the outliers of the run, as a file of the folder.
Flagged(n, file) == \E k \in 1..Len(outliers) : outliers[k].file = file /\ outliers[k].folder = n

\* C14: once analyze_vault has identified the outliers, a direct file of a
\* folder that has an embedding and at least min_files direct files is
\* flagged if and only if (deviation - mean) / std > z_threshold, mean and
\* population std taken over the deviations of the direct files of that
\* folder only and computed as np.mean and np.std compute them; when std
\* is zero no file of the folder is flagged; every outlier is such a
\* file, its z-score is a number above the threshold, and no error ends
\* the step.
C14_OutlierIffZAboveThreshold ==
  Positions("outliers") # {} =>
     /\ failure = "none"
     /\ \A n \in AnalysedFolders : \A i \in 1..Len(nodes[n].files) :
           Flagged(n, nodes[n].files[i]) <=> AboveThreshold(DirectDeviations(n), i)
     /\ \A k \in 1..Len(outliers) :
           /\ outliers[k].folder \in AnalysedFolders
           /\ outliers[k].file \in Range(nodes[outliers[k].folder].files)
           /\ Greater64(outliers[k].z_score, Threshold64(z_threshold))

\* analyze_vault returned after flagging one of the two direct files of a
\* folder that also has a file in a subfolder.
C14_Witness ==
  /\ pc = "done"
  /\ mode = "analyze_vault"
  /\ Len(outliers) = 1
  /\ Len(nodes[outliers[1].folder].files) = 2
  /\ nodes[outliers[1].folder].subfolders # <<>>
  /\ nodes[nodes[outliers[1].folder].subfolders[1]].files # <<>>

\* The folder is the folder of the file or lies above it: its path is a
\* proper prefix of the path of the file.
IsOwnOrAncestor(folder_path, file_path) ==
  /\ Len(folder_path) < Len(file_path)
  /\ SubSeq(file_path, 1, Len(folder_path)) = folder_path

\* C16: for every outlier file of a nested folder, as A/B/c.md, and every
\* folder-embedding map, computed from the tree or loaded from the cache,
\* the candidates of its suggestion never contain the folder of the file
\* (A/B), a folder above it (A), or the root of the tree: neither the root
\* node "" nor the node "." that get_or_create_folder puts above the
\* top-level folders.
C16_NoOwnFolderAncestorOrRoot ==
  (mode = "analyze_vault" /\ Positions("suggest") # {}) =>
     \A i \in 1..Len(suggestions) : \A k \in 1..Len(suggestions[i].candidates) :
        LET c == suggestions[i].candidates[k].folder_path
        IN /\ ~IsOwnOrAncestor(c, suggestions[i].file_path)
           /\ c # <<>>
           /\ c # <<".">>

\* The similarity of a cluster of the run to a folder of folder_embeddings
\* reaches min_similarity.
Reaches(cluster, e) ==
  LET sim == cosine_similarity(cluster.centroid, e.embedding)
  IN sim # NaN /\ ThresholdScale * sim >= min_similarity

\* C17: once organize_inbox has matched the clusters, no candidate of any
\* cluster is the inbox folder, a folder under it, or a folder whose path
\* has the inbox prefix as a run of whole segments at any depth.
C17_NoCandidateWithinInbox ==
  (mode = "organize_inbox" /\ Positions("match") # {}) =>
     \A i \in 1..Len(suggestions) : \A k \in 1..Len(suggestions[i].candidates) :
        LET c == suggestions[i].candidates[k].folder_path
        IN /\ c # InboxPrefix
           /\ ~(Len(c) > Len(InboxPrefix) /\ SubSeq(c, 1, Len(InboxPrefix)) = InboxPrefix)
           /\ \A j \in 1..Len(c) : SubSeq(c, j, j + Len(InboxPrefix) - 1) # InboxPrefix

\* organize_inbox returned a cluster with a candidate while the folder
\* embeddings held the inbox and a nested folder named like it, both as
\* similar to the cluster as the floor demands.
C17_Witness ==
  /\ mode = "organize_inbox"
  /\ pc = "done"
  /\ Len(suggestions) >= 1
  /\ suggestions[1].candidates # <<>>
  /\ \E a, b \in 1..Len(folder_embeddings) :
        /\ folder_embeddings[a].path = InboxPrefix
        /\ folder_embeddings[b].path = <<"A">> \o InboxPrefix
        /\ Reaches(clusters[1], folder_embeddings[a])
        /\ Reaches(clusters[1], folder_embeddings[b])

\* The file node of the tree with the given path.
FileAt(file_path) ==
  LET fs == get_all_files(nodes)
  IN fs[CHOOSE i \in 1..Len(fs) : fs[i].path = file_path]

\* The entries of folder_embeddings that may be proposed for suggestion i
\* of the run: in analyze_vault those that are neither the folder of the
\* file nor a folder named on its path, in organize_inbox those outside
\* the inbox other than "" and "."; each with its similarity to the file,
\* or to the centroid of the cluster.
NotExcluded(i) ==
  IF mode = "analyze_vault"
  THEN {e \in Range(folder_embeddings) : ~IsOwnOrAncestor(e.path, suggestions[i].file_path)}
  ELSE {e \in Range(folder_embeddings) :
          /\ e.path \notin {<<>>, <<".">>, InboxPrefix}
          /\ \A j \in 1..Len(e.path) : SubSeq(e.path, j, j + Len(InboxPrefix) - 1) # InboxPrefix}

SimilarityTo(i, e) ==
  IF mode = "analyze_vault"
  THEN cosine_similarity(FileAt(suggestions[i].file_path).embedding, e.embedding)
  ELSE cosine_similarity(clusters[i].centroid, e.embedding)

\* The folders of NotExcluded(i) whose similarity is >= min_similarity.
Eligible(i) ==
  {e \in NotExcluded(i) :
     SimilarityTo(i, e) # NaN /\ ThresholdScale * SimilarityTo(i, e) >= min_similarity}

\* C18: the candidate list of every suggestion of a run is the top_k
\* folders of highest similarity among the folders that are not excluded
\* and whose similarity is >= min_similarity: it is sorted by similarity
\* descending, has min(top_k, number of eligible folders) entries, each an
\* eligible folder with its similarity, and no eligible folder it omits is
\* more similar than one it lists.
C18_CandidatesAreTopK ==
  (Positions("suggest") # {} \/ Positions("match") # {}) =>
     \A i \in 1..Len(suggestions) :
        LET cs == suggestions[i].candidates
            listed == {cs[k].folder_path : k \in 1..Len(cs)}
        IN /\ \A k \in 1..Len(cs) : \A l \in 1..Len(cs) :
                 k < l => cs[k].similarity >= cs[l].similarity /\ cs[k].folder_path # cs[l].folder_path
           /\ Len(cs) = IF Cardinality(Eligible(i)) < top_k THEN Cardinality(Eligible(i)) ELSE top_k
           /\ \A k \in 1..Len(cs) :
                 \E e \in Eligible(i) : e.path = cs[k].folder_path /\ SimilarityTo(i, e) = cs[k].similarity
           /\ \A e \in Eligible(i) :
                 e.path \notin listed => \A k \in 1..Len(cs) : SimilarityTo(i, e) <= cs[k].similarity

\* analyze_vault returned a suggestion whose one candidate was chosen among
\* two or more eligible folders, while a folder that is not excluded stayed
\* below the floor and stood before an eligible one in the folder
\* embeddings.
C18_Witness ==
  /\ mode = "analyze_vault"
  /\ pc = "done"
  /\ top_k = 1
  /\ Len(suggestions) >= 1
  /\ Len(suggestions[1].candidates) = 1
  /\ Cardinality(Eligible(1)) >= 2
  /\ \E a, b \in 1..Len(folder_embeddings) :
        /\ a < b
        /\ folder_embeddings[a] \in NotExcluded(1) \ Eligible(1)
        /\ folder_embeddings[b] \in Eligible(1)

\* Some folder survives for the file of an outlier: it is not the folder
\* of the file nor named on its path, and its similarity to the file is
\* >= min_similarity.
Survivors(file) ==
  {e \in Range(folder_embeddings) :
     /\ ~IsOwnOrAncestor(e.path, file.path)
     /\ ThresholdScale * cosine_similarity(file.embedding, e.embedding) >= min_similarity}

\* C19: the run produces a suggestion for every source, for every outlier
\* in analyze_vault and for every cluster in organize_inbox, in the order
\* of the sources, and no error is raised; a source for which no folder
\* survives has a suggestion with an empty candidate list.
C19_SuggestionForEverySource ==
  /\ (mode = "analyze_vault" /\ Positions("suggest") # {}) =>
        /\ failure = "none"
        /\ Len(suggestions) = Len(outliers)
        /\ \A i \in 1..Len(suggestions) : suggestions[i].file_path = outliers[i].file.path
  /\ (mode = "organize_inbox" /\ Positions("match") # {}) =>
        /\ failure = "none"
        /\ Len(suggestions) = Len(clusters)
        /\ \A i \in 1..Len(suggestions) : suggestions[i].files = clusters[i].files

\* C19 amended: no error is raised when no folder survives exclusion and
\* the min_similarity floor.  organize_inbox produces a suggestion for
\* every cluster, in cluster order, with an empty candidate list exactly
\* when no folder survives.  generate_suggestions produces a suggestion
\* exactly for the outliers for which a folder survives, in outlier order,
\* and none for the others: no suggestion of analyze_vault has an empty
\* candidate list.
C19_SuggestionForEverySourceWithCandidates ==
  /\ (mode = "analyze_vault" /\ Positions("suggest") # {}) =>
        LET kept == SelectSeq(outliers, LAMBDA o : Survivors(o.file) # {} /\ top_k > 0)
        IN /\ failure = "none"
           /\ Len(suggestions) = Len(kept)
           /\ \A i \in 1..Len(suggestions) :
                 /\ suggestions[i].file_path = kept[i].file.path
                 /\ suggestions[i].candidates # <<>>
  /\ (mode = "organize_inbox" /\ Positions("match") # {}) =>
        /\ failure = "none"
        /\ Len(suggestions) = Len(clusters)
        /\ \A i \in 1..Len(suggestions) :
              /\ suggestions[i].files = clusters[i].files
              /\ suggestions[i].cluster_id = clusters[i].cluster_id
              /\ suggestions[i].candidates = <<>> <=> (Eligible(i) = {} \/ top_k = 0)

\* analyze_vault returned no suggestion for its one outlier, no folder of
\* the folder embeddings being similar enough to the file.
C19_Witness ==
  /\ pc = "done"
  /\ mode = "analyze_vault"
  /\ folder_embeddings # <<>>
  /\ Len(outliers) = 1
  /\ Survivors(outliers[1].file) = {}
  /\ suggestions = <<>>

\* The decimal x.num / x.den is the integer v.
DecimalIs(x, v) == x.num = v * x.den

\* The float json.load reads of the decimal x.num / x.den is the z-score z.
DecimalIsZ(x, z) ==
  LET read == Div64(Binary64(x.num, 0), Binary64(x.den, 0))
  IN ~Greater64(read, z) /\ ~Greater64(z, read)

\* C20: once the report of analyze_vault has been saved and the moves
\* command has reconstructed its suggestions, these are the suggestions of
\* the report: the same file paths in the same order, the same candidate
\* folders in the same order, and deviation, z-score and similarities
\* numerically identical to those the report held.
C20_ReportRoundTrip ==
  pc = "moved" =>
     /\ Len(moves) = Len(suggestions)
     /\ \A i \in 1..Len(moves) :
           /\ moves[i].file_path = suggestions[i].file_path
           /\ moves[i].current_folder = suggestions[i].current_folder
           /\ Len(moves[i].candidates) = Len(suggestions[i].candidates)
           /\ \A k \in 1..Len(moves[i].candidates) :
                 /\ moves[i].candidates[k].folder_path = suggestions[i].candidates[k].folder_path
                 /\ DecimalIs(moves[i].candidates[k].similarity, suggestions[i].candidates[k].similarity)
           /\ DecimalIs(moves[i].deviation_score, suggestions[i].deviation_score)
           /\ DecimalIsZ(moves[i].z_score, suggestions[i].z_score)

\* ------------------------------------------------------------------------
\* The program run twice on the same files (SpecTwice)
\* ------------------------------------------------------------------------

\* Arguments of the two runs: analyze_vault admits folders of two files and
\* keeps up to three candidates of any similarity; organize_inbox runs with
\* its defaults.
TwiceParameters ==
  [analyze_vault |->
     [z_threshold |-> 5, min_files |-> 2, top_k |-> DefaultTopK, min_similarity |-> -10,
      distance_threshold |-> DefaultDistanceThreshold],
   organize_inbox |->
     [z_threshold |-> 0, min_files |-> 0, top_k |-> DefaultTopK,
      min_similarity |-> DefaultMinSimilarity, distance_threshold |-> DefaultDistanceThreshold]]

\* The cache file before the first run: absent, or one of two caches of an
\* earlier run.
TwiceCaches ==
  {c \in AnalysisCaches : ~c.exists \/ c.data[1].embedding = c.data[3].embedding}

\* The first of two runs of analyze_vault or organize_inbox.
InitTwice ==
  /\ mode \in {"analyze_vault", "organize_inbox"}
  /\ recompute_folders \in BOOLEAN
  /\ doc_kind = "mapping"
  /\ doc_emb \in IF mode = "analyze_vault"
                 THEN UNION {Dicts(VaultPaths, EmbValues, n) : n \in 0..MaxVaultDocs}
                 ELSE UNION {Dicts(InboxRunPaths, EmbValues, n) : n \in 0..MaxDocs}
  /\ dir_emb \in TwiceCaches
  /\ z_threshold = TwiceParameters[mode].z_threshold
  /\ min_files = TwiceParameters[mode].min_files
  /\ top_k = TwiceParameters[mode].top_k
  /\ min_similarity = TwiceParameters[mode].min_similarity
  /\ distance_threshold = TwiceParameters[mode].distance_threshold
  /\ RunStart

\* The program is started again with the same arguments on the same
\* doc_emb.json: a new process, whose memory is empty, that finds the
\* cache file as the first run left it.
Rerun ==
  /\ pc = "done"
  /\ run = 1
  /\ run' = 2
  /\ first' = <<[clusters |-> clusters, outliers |-> outliers, suggestions |-> suggestions,
                 report |-> report, log |-> log]>>
  /\ pc' = "load_docs"
  /\ log' = <<>>
  /\ folder_embeddings' = <<>>
  /\ report' = <<>>
  /\ folder_analyses' = <<>>
  /\ outliers' = <<>>
  /\ suggestions' = <<>>
  /\ file_embeddings' = <<>>
  /\ nodes' = EmptyTree.nodes
  /\ folder_cache' = EmptyTree.folder_cache
  /\ embeddings' = <<>>
  /\ clusters' = <<>>
  /\ UNCHANGED <<mode, recompute_folders, doc_emb, dir_emb, z_threshold, min_files, top_k,
                 min_similarity, distance_threshold, dev_list, flag_list, saved, moves,
                 doc_kind, failure, tpc, idx, stack, visited, cpc, max_words, label>>

NextTwice == Next \/ Rerun

SpecTwice == InitTwice /\ [][NextTwice]_vars

\* C21: a second run of the program on the same input mapping with the
\* same parameters does not fail and returns what the first run returned:
\* the same clusters with the same members in the same order and the same
\* cluster ids, the same outliers, and the same suggestions in the same
\* order with the same candidates in the same order.
C21_SecondRunReturnsTheSame ==
  /\ run = 2 => pc # "failed"
  /\ (run = 2 /\ pc = "done") =>
        /\ clusters = first[1].clusters
        /\ outliers = first[1].outliers
        /\ suggestions = first[1].suggestions
        /\ report = first[1].report

\* The second run of analyze_vault returned a suggestion with two
\* candidates after loading the cache that the first run had computed and
\* written.
C21_Witness ==
  /\ run = 2
  /\ pc = "done"
  /\ mode = "analyze_vault"
  /\ Len(suggestions) >= 1
  /\ Len(suggestions[1].candidates) >= 2
  /\ \E i \in 1..Len(first[1].log) : first[1].log[i] = "cache_write"
  /\ Positions("cache_read") # {}

\* ------------------------------------------------------------------------
\* Properties of the runs on their inputs (Spec, SpecAnalysis)
\* ------------------------------------------------------------------------

\* The embedding input is empty or missing: doc_emb.json holds {}, holds
\* nothing, or does not exist.
EmptyOrMissingInput == doc_kind # "mapping" \/ doc_emb = <<>>

\* C22: when the embedding input is empty or missing, and the cache file
\* is absent or well-formed, analyze_vault and organize_inbox raise no
\* error and the report they return has an empty list of suggestions.
C22_EmptyInputGivesEmptyReport ==
  (EmptyOrMissingInput /\ dir_emb.kind \notin MalformedKinds) =>
     /\ failure = "none"
     /\ pc # "failed"
     /\ report # <<>> => report[1].suggestions = <<>>

\* The steps of analyze_vault that analyse the tree.
TreeAnalysisSteps == {"rank", "outliers", "suggest"}

\* The run is at or past its first analysis step.
AnalysisReached ==
  mode = "analyze_vault" /\ pc \in TreeAnalysisSteps \cup {"report", "done", "saved", "moved"}

\* build_tree and the folder-embedding step, aggregation or the loading of
\* the cache, came before every analysis step of the run.
BuiltBeforeAnalysis ==
  /\ Positions("build_tree") # {}
  /\ Positions("aggregate") # {} \/ Positions("cache_read") # {}
  /\ \A i \in 1..Len(log) : \A j \in 1..Len(log) :
        (log[i] \in {"build_tree", "aggregate", "cache_read", "cache_write"}
           /\ log[j] \in TreeAnalysisSteps) => i < j

\* No step from the first analysis step on changes a node: its embedding,
\* files, subfolders and parent stay as they are.
AnalysisReadsOnly == [][AnalysisReached => nodes' = nodes]_vars

\* C23: in analyze_vault no analysis step starts before the tree is built
\* and every folder of it has been given its embedding, and from then on
\* no analysis step changes the embedding, files, subfolders or parent of
\* any node.
C23_TreeCompleteThenReadOnly ==
  /\ [](AnalysisReached =>
          /\ BuiltBeforeAnalysis
          /\ \A n \in Range(get_all_folders(nodes, FALSE)) : nodes[n].embedding # <<>>)
  /\ AnalysisReadsOnly

\* The default of the min_files parameter of rank_incoherent_folders.
RankDefaultMinFiles == 2

\* C24: a run of analyze_vault with default parameters ranks the folders
\* that have two or more direct files (those with an embedding and a
\* coherence that is not negative), a folder of exactly two files among
\* them, while only folders of at least three direct files yield outliers.
C24_DefaultsRankFoldersOfTwo ==
  (/\ mode = "analyze_vault"
   /\ min_files = DefaultMinFiles
   /\ Positions("outliers") # {}) =>
     /\ \A n \in Range(get_all_folders(nodes, FALSE)) :
           (/\ Len(nodes[n].files) >= RankDefaultMinFiles
            /\ nodes[n].embedding # <<>>
            /\ compute_folder_coherence(nodes, n).num >= 0) =>
              \E i \in 1..Len(folder_analyses) : folder_analyses[i].folder = n
     /\ \A k \in 1..Len(outliers) : Len(nodes[outliers[k].folder].files) >= DefaultMinFiles

\* The same path -> vector pairs inserted in the opposite order.
Reversed(d) == [i \in 1..Len(d) |-> d[Len(d) + 1 - i]]

\* The paths of the folders in the order rank_incoherent_folders gives
\* them on the tree of the mapping fe, the folder embeddings computed, or
\* taken from the cache if the run has loaded it.
RankedPaths(fe) ==
  LET built == build_tree(fe).nodes
      ns == IF Positions("cache_read") # {}
            THEN AssignCached(built, folder_embeddings)
            ELSE compute_folder_embeddings(built, 1)
      ranked == rank_incoherent_folders(ns, min_files)
  IN [i \in 1..Len(ranked) |-> ns[ranked[i].folder].path]

\* C25: the order of the folders in the result of rank_incoherent_folders,
\* folders of equal coherence included, does not depend on the order in
\* which the path -> vector pairs were inserted into the input mapping:
\* the mapping with the pairs in the opposite order yields the same order
\* of folders.
C25_RankingOrderIgnoresInsertionOrder ==
  (mode = "analyze_vault" /\ Positions("rank") # {}) =>
     /\ [i \in 1..Len(folder_analyses) |-> nodes[folder_analyses[i].folder].path]
           = RankedPaths(doc_emb)
     /\ RankedPaths(Reversed(doc_emb)) = RankedPaths(doc_emb)

\* ------------------------------------------------------------------------
\* Further properties of build_tree (SpecTree) and cluster_files
\* (SpecCluster)
\* ------------------------------------------------------------------------

\* C26: for input paths that are relative and free of ".." segments, the
\* folder nodes of the tree returned by build_tree are exactly the root,
\* of path "", and one node for each directory prefix of an input path:
\* no other folder node exists, every top-level folder is a child of the
\* root, and the parent of every folder is the node whose path is the path
\* of the folder without its last segment.
C26_FoldersAreRootAndPrefixes ==
  (Built /\ failure = "none" /\ ~HasInvalidPath) =>
     /\ {nodes[n].path : n \in Folders}
           = {<<>>} \cup UNION {DirPrefixes(file_embeddings[i].path) : i \in 1..Len(file_embeddings)}
     /\ \A n \in Folders :
           /\ Len(nodes[n].path) = 1 => nodes[n].parent = 1
           /\ nodes[n].path # <<>> =>
                 /\ nodes[n].parent # NoNode
                 /\ nodes[nodes[n].parent].path = Front(nodes[n].path)

\* The number of places at which the path stands in the file lists of the
\* clusters.
Memberships(path) ==
  Cardinality({m \in UNION {{<<c, k>> : k \in 1..Len(clusters[c].files)} : c \in 1..Len(clusters)} :
                 clusters[m[1]].files[m[2]] = path})

\* C27: the clusters returned by cluster_files partition the input: every
\* input path is a member of exactly one cluster, once; no cluster is
\* empty; no cluster holds a path that is not in the input; so the sizes
\* of the clusters add up to the number of input files.
C27_ClustersPartitionInput ==
  cpc = "returned" =>
     /\ \A i \in 1..Len(embeddings) : Memberships(embeddings[i].path) = 1
     /\ \A c \in 1..Len(clusters) :
           /\ clusters[c].files # <<>>
           /\ \A k \in 1..Len(clusters[c].files) : clusters[c].files[k] \in Keys(embeddings)
     /\ SumSeq([c \in 1..Len(clusters) |-> Len(clusters[c].files)]) = Len(embeddings)

\* cluster_files returned a cluster of two files and a cluster of one for
\* three input files.
C27_Witness ==
  /\ cpc = "returned"
  /\ Len(embeddings) = 3
  /\ Len(clusters) = 2
  /\ Len(clusters[1].files) = 2
  /\ Len(clusters[2].files) = 1

\* ------------------------------------------------------------------------
\* Properties of the folder embeddings of organize_inbox and of the cache
\* ------------------------------------------------------------------------

\* The paths of the files whose embeddings went into the embedding of the
\* folder at folder_path: the files of its subtree in the tree of the run.
Contributors(folder_path) ==
  UNION {{nodes[m].files[k].path : k \in 1..Len(nodes[m].files)} :
           m \in {m \in Reachable : \E n \in Reachable :
                    nodes[n].path = folder_path /\ m \in Range(Traverse(nodes, n))}}

\* The paths load_inbox_files selects as inbox files.
InboxFilePaths == Keys(load_inbox_files(InboxPrefix, doc_emb))

\* C29: in organize_inbox with the folder embeddings computed, no file
\* that load_inbox_files selects is among the files behind a folder
\* embedding that is computed, saved to the cache, or offered as a
\* candidate destination.
C29_InboxFilesDoNotContribute ==
  (mode = "organize_inbox" /\ Positions("aggregate") # {}) =>
     /\ \A n \in Reachable :
           nodes[n].embedding # <<>> => Contributors(nodes[n].path) \cap InboxFilePaths = {}
     /\ Positions("cache_write") # {} =>
           \A i \in 1..Len(dir_emb.data) :
              Contributors(dir_emb.data[i].path) \cap InboxFilePaths = {}
     /\ \A i \in 1..Len(suggestions) : \A k \in 1..Len(suggestions[i].candidates) :
           Contributors(suggestions[i].candidates[k].folder_path) \cap InboxFilePaths = {}

\* The tree of a run that computes the folder embeddings on the input of
\* this run, after compute_folder_embeddings.
RecomputedNodes ==
  compute_folder_embeddings(
     build_tree(IF mode = "organize_inbox" THEN non_inbox_embeddings(InboxPrefix, doc_emb)
                ELSE doc_emb).nodes, 1)

\* The candidates of every suggestion of that run.
RecomputedCandidates ==
  LET fe == folder_embeddings_to_dict(RecomputedNodes)
      found == IF mode = "analyze_vault"
               THEN generate_suggestions(RecomputedNodes,
                       identify_all_outliers(RecomputedNodes, z_threshold, min_files),
                       fe, top_k, min_similarity)
               ELSE [i \in 1..Len(clusters) |->
                       [candidates |-> find_matching_folders(clusters[i], fe, InboxPrefix,
                                                             top_k, min_similarity)]]
  IN [i \in 1..Len(found) |-> found[i].candidates]

\* C30: a run that loaded the folder-embedding cache ends with the folder
\* embeddings on the tree nodes and the suggestions of a run that computes
\* the embeddings on the same input, whatever the cache held; every
\* non-root folder of the tree has an embedding after the load.
C30_CachedRunEqualsRecomputedRun ==
  (pc = "done" /\ Positions("cache_read") # {} /\ Positions("aggregate") = {}) =>
     /\ mode = "analyze_vault" =>
           \A n \in Range(get_all_folders(nodes, FALSE)) :
              /\ nodes[n].embedding # <<>>
              /\ nodes[n].embedding = RecomputedNodes[n].embedding
     /\ [i \in 1..Len(suggestions) |-> suggestions[i].candidates] = RecomputedCandidates

====
